---- MODULE Spec2Model ----
(***************************************************************************)
(* Model of the graph search engine of ok_2025 (src/core/services):        *)
(*   - the autosearch job runtime (autosearch.py: start_job, _run_job),    *)
(*   - the degree-sequence realizers (rewrite.py) and the Havel-Hakimi     *)
(*     test (hh.py),                                                       *)
(*   - the 2-switch move and hill climbing (meta.py).                      *)
(* Each part has its own specification over the shared variables; the      *)
(* variables of the other parts stay at their idle value.                  *)
(***************************************************************************)
EXTENDS Integers, Sequences, FiniteSets, TLC

VARIABLES
    jobs,       \* the AutoSearchJob table: job id -> row
    workers,    \* the thread of each job: position in _run_job, its locals
    lock,       \* _lock: 0 when free, else the id of the job whose worker holds it
    rz,         \* one call of a realizer (rewrite.py)
    sw,         \* a graph under repeated _two_switch attempts (meta.py)
    hc,         \* one call of hill_climb or simulated_annealing (meta.py)
    db,         \* the Run and Discovery rows of one fingerprint (discovery.py)
    ec,         \* one call of enforce_connected_2switch (connectivity.py)
    gen,        \* one call of generate_fixed_sum (generator.py)
    fn,         \* one call of a function without loops over random choices
    au          \* the batch loop of one job: its parameters, locals and saved Runs

\* The state of the database, the enforcer, the generator, the functions and
\* the batch loop.
others == <<db, ec, gen, fn, au>>

\* The state of the jobs, the realizers and the searches of meta.py.
searches == <<jobs, workers, lock, rz, sw, hc>>

vars == <<jobs, workers, lock, rz, sw, hc, db, ec, gen, fn, au>>

(***************************************************************************)
(* Bounds of the model.                                                    *)
(***************************************************************************)
MaxJobs == 2        \* jobs started in one behaviour
MaxBatch == 2       \* largest "batch" parameter of a job
MaxN == 4           \* longest degree sequence given to a realizer
MaxDeg == 3         \* largest entry of a degree sequence
StepBudget == 8     \* the small value of max_steps given to realize_backtracking
FullShuffleLen == 3 \* lists up to this length are shuffled into every order
MetaN == 4          \* most vertices of a graph given to _two_switch
ClimbN == 5         \* most vertices of a graph given to hill_climb
ClimbEdges == 4     \* most edges of a graph given to hill_climb
MaxAttempts == 3    \* 2-switch attempts in a row
MaxIters == 3       \* largest "iterations" given to hill_climb
MaxRuns == 3        \* most Run rows of the fingerprint
MaxCalls == 4       \* most calls of try_create_discovery
MaxEps == 1         \* largest eps given to try_create_discovery
EnforceN == 6       \* most vertices of a graph given to enforce_connected_2switch
EnforceEdges == 5   \* most edges of a graph given to enforce_connected_2switch
MaxOuter == 3       \* largest max_outer given to enforce_connected_2switch
MaxInner == 1       \* largest max_inner given to enforce_connected_2switch
GenN == 3           \* largest n given to generate_fixed_sum
GenK == 4           \* largest k given to generate_fixed_sum
GenAttempts == 2    \* largest max_attempts given to generate_fixed_sum
NormN == 3          \* largest n, and largest endpoint, given to normalize_edges
NormLen == 3        \* longest list given to normalize_edges
G6N == 5            \* largest n of which every edge set is given to edges_to_graph6
IterBatch == 1      \* largest batch of the job whose batch loop is followed
SeedBatch == 2      \* largest batch of the job whose generator seeds are followed
IterAttempts == 2   \* largest max_deg_attempts of that job
IterIters == 1      \* largest iters of that job

\* realize_backtracking: default of max_steps
DefaultMaxSteps == 2000000


\* No graph is under 2-switches.
NoSwitch == [pc |-> "idle", n |-> 0, start |-> {}, edge_set |-> {}, attempts |-> 0,
             ok |-> FALSE]

\* hill_climb is not called; the fields are its parameters and locals.
NoClimb ==
    [pc |-> "idle", n |-> 0, start_edges |-> <<>>, iterations |-> 0, mode |-> "",
     connected_only |-> FALSE, it |-> 0, cur_set |-> {}, cur_edges |-> <<>>,
     cur_sr |-> 0, accepted |-> 0, cold |-> FALSE]

\* No realizer is called; the fields are the locals of the realizers.
NoRealizer ==
    [pc |-> "idle", alg |-> "", deg |-> <<>>, seeded |-> FALSE, max_steps |-> 0,
     items |-> <<>>, edge_set |-> {}, d |-> <<>>, all_pairs |-> <<>>,
     stack |-> <<>>, idx |-> 0, steps |-> 0, result |-> <<>>, err |-> ""]

\* None of Python, null in the database. The values of the nullable columns
\* are numbers >= 0.
None == -1

\* No row is in the database and try_create_discovery is not called.
NoDb == [pc |-> "idle", runs |-> <<>>, discs |-> <<>>, eps |-> 0, calls |-> 0,
         last |-> [mode |-> "", best |-> 0, flags |-> <<>>, created |-> FALSE]]

\* enforce_connected_2switch is not called; the fields are its parameters
\* and locals, outer counts the passes of "for _ in range(max_outer)".
NoEnforce ==
    [pc |-> "idle", n |-> 0, edges |-> <<>>, max_outer |-> 0, max_inner |-> 0,
     edge_set |-> {}, outer |-> 0, switches |-> 0, result |-> <<>>, err |-> ""]

\* generate_fixed_sum is not called; the fields are its parameters and
\* locals, attempt counts the passes of "for _ in range(max_attempts)".
NoGen ==
    [pc |-> "idle", n |-> 0, k |-> 0, max_attempts |-> 0, attempt |-> 0,
     deg |-> <<>>, s |-> 0, result |-> <<>>, err |-> ""]

\* No function is called. The fields are the parameters and locals of
\* normalize_edges and edges_to_graph6; i is the number of pairs the loop
\* over edges has taken, first the value of an earlier call.
NoCall ==
    [pc |-> "idle", n |-> 0, edges |-> <<>>, i |-> 0, norm |-> <<>>,
     seen |-> {}, result |-> <<>>, first |-> <<>>, calls |-> 0,
     adj |-> {}, err |-> ""]

\* The batch loop of _run_job is not run. The fields are the parameters of
\* the job, the locals of the loop, the Runs it saved (runs), the calls of
\* generate_fixed_sum as <<i, att, seed>> (gen_calls) and what the generator
\* returned for a seed (drawn); x, q, alive, waited and er belong to
\* run_algorithm_timeout: its position, the channel, p.is_alive(), the
\* number of bounded waits that ran to their end, and its return value
\* (er_ok FALSE for null).
NoIter ==
    [pc |-> "idle", connected_only |-> FALSE, mode |-> "", do_greedy |-> FALSE,
     do_random |-> FALSE, do_exact |-> FALSE, seed |-> None, batch |-> 0,
     max_deg_attempts |-> 0, iters |-> 0, i |-> 0, att |-> 0, deg |-> <<>>,
     drawn |-> {}, gen_calls |-> {}, has_baseline |-> FALSE,
     baseline_edges |-> <<>>, baseline_best_sr |-> 0, runs |-> <<>>,
     done |-> 0, last_message |-> "", x |-> "idle", q |-> <<>>,
     alive |-> FALSE, waited |-> 0, er_ok |-> FALSE, er_edges |-> <<>>]

OthersIdle ==
    db = NoDb /\ ec = NoEnforce /\ gen = NoGen /\ fn = NoCall /\ au = NoIter

(***************************************************************************)
(* Job runtime: autosearch.py                                              *)
(***************************************************************************)

\* The values of params["batch"]: int() accepts negative numbers as well.
Batches == {-1} \cup (0 .. MaxBatch)

JobIds == 1 .. Len(jobs)

\* What one batch iteration can end in: a Discovery was created, none was
\* created, no graphical sequence was generated (skip), or a step of the
\* iteration raised.
Outcomes == {"DISCOVERY", "ok", "skip", "iter error"}

\* start_job: the row is created queued and the worker thread is started.
start_job(batch, bad) ==
    /\ Len(jobs) < MaxJobs
    /\ jobs' = Append(jobs, [status |-> "queued",
                             error |-> "",
                             progress_total |-> batch,
                             progress_done |-> 0,
                             last_message |-> "queued",
                             params |-> [batch |-> batch, bad |-> bad]])
    /\ workers' = Append(workers, [pc |-> "acquire", acquired |-> FALSE,
                                   i |-> 0, done |-> 0])
    /\ UNCHANGED <<lock, rz, sw, hc, others>>

\* Faulty variant of the try-lock: the worker goes on whether or not the lock is free.
run_job_acquire_blind(j) ==
    /\ workers[j].pc = "acquire"
    /\ lock' = j
    /\ workers' = [workers EXCEPT ![j].pc = "begin", ![j].acquired = TRUE]
    /\ UNCHANGED <<jobs, rz, sw, hc, others>>

\* _run_job, line 232: _lock.acquire(blocking=False).
run_job_acquire(j) ==
    /\ workers[j].pc = "acquire"
    /\ IF lock = 0
         THEN /\ lock' = j
              /\ workers' = [workers EXCEPT ![j].pc = "begin", ![j].acquired = TRUE]
         ELSE /\ lock' = lock
              /\ workers' = [workers EXCEPT ![j].pc = "conflict"]
    /\ UNCHANGED <<jobs, rz, sw, hc, others>>

\* Faulty variant: the early return runs the release of the lock.
run_job_conflict_release(j) ==
    /\ workers[j].pc = "conflict"
    /\ jobs' = [jobs EXCEPT ![j].status = "failed",
                            ![j].error = "Another job is running"]
    /\ workers' = [workers EXCEPT ![j].pc = "exit"]
    /\ lock' = 0
    /\ UNCHANGED <<rz, sw, hc, others>>

\* Faulty variant: the worker does not return after the update.
run_job_conflict_goes_on(j) ==
    /\ workers[j].pc = "conflict"
    /\ jobs' = [jobs EXCEPT ![j].status = "failed",
                            ![j].error = "Another job is running"]
    /\ workers' = [workers EXCEPT ![j].pc = "begin"]
    /\ UNCHANGED <<lock, rz, sw, hc, others>>

\* _run_job, lines 233-237: the try-lock failed.
run_job_conflict(j) ==
    /\ workers[j].pc = "conflict"
    /\ jobs' = [jobs EXCEPT ![j].status = "failed",
                            ![j].error = "Another job is running"]
    /\ workers' = [workers EXCEPT ![j].pc = "exit"]
    /\ UNCHANGED <<lock, rz, sw, hc, others>>

\* _run_job, lines 240-272: the row is read, the parameters are converted
\* (int(), float() raise on a value that is no number) and the job is saved as
\* running.
run_job_begin(j) ==
    /\ workers[j].pc = "begin"
    /\ IF jobs[j].params.bad
         THEN /\ workers' = [workers EXCEPT ![j].pc = "except"]
              /\ jobs' = jobs
         ELSE /\ jobs' = [jobs EXCEPT ![j].status = "running",
                                      ![j].progress_total = jobs[j].params.batch,
                                      ![j].last_message = "running"]
              /\ workers' = [workers EXCEPT ![j].pc = "loop"]
    /\ UNCHANGED <<lock, rz, sw, hc, others>>

\* Faulty variant: an iteration that raised is not counted.
run_job_iteration_lost(j, outcome) ==
    /\ workers[j].pc = "loop"
    /\ workers[j].i < jobs[j].params.batch
    /\ IF outcome = "iter error"
         THEN /\ jobs' = [jobs EXCEPT ![j].last_message = outcome]
              /\ workers' = [workers EXCEPT ![j].i = @ + 1]
         ELSE /\ jobs' = [jobs EXCEPT ![j].progress_done = workers[j].done + 1,
                                      ![j].last_message = outcome]
              /\ workers' = [workers EXCEPT ![j].i = @ + 1, ![j].done = @ + 1]
    /\ UNCHANGED <<lock, rz, sw, hc, others>>

\* _run_job, lines 275-404: one pass of "for i in range(batch)". Whatever the
\* body ends in (lines 292-297 skip, 394-397 ok or discovery, 399-400 caught
\* error), done is increased by one and progress_done and last_message are
\* saved.
run_job_iteration(j, outcome) ==
    /\ workers[j].pc = "loop"
    /\ workers[j].i < jobs[j].params.batch
    /\ jobs' = [jobs EXCEPT ![j].progress_done = workers[j].done + 1,
                            ![j].last_message = outcome]
    /\ workers' = [workers EXCEPT ![j].i = @ + 1, ![j].done = @ + 1]
    /\ UNCHANGED <<lock, rz, sw, hc, others>>

\* _run_job, lines 406-409: range(batch) is exhausted.
run_job_done(j) ==
    /\ workers[j].pc = "loop"
    /\ workers[j].i >= jobs[j].params.batch
    /\ jobs' = [jobs EXCEPT ![j].status = "done", ![j].last_message = "done"]
    /\ workers' = [workers EXCEPT ![j].pc = "finally"]
    /\ UNCHANGED <<lock, rz, sw, hc, others>>

\* Faulty variant: the handler returns without the release of the lock.
run_job_except_no_release(j) ==
    /\ workers[j].pc = "except"
    /\ jobs' = [jobs EXCEPT ![j].status = "failed", ![j].error = "ValueError"]
    /\ workers' = [workers EXCEPT ![j].pc = "exit"]
    /\ UNCHANGED <<lock, rz, sw, hc, others>>

\* _run_job, lines 411-412: an error outside the per-iteration try.
run_job_except(j) ==
    /\ workers[j].pc = "except"
    /\ jobs' = [jobs EXCEPT ![j].status = "failed", ![j].error = "ValueError"]
    /\ workers' = [workers EXCEPT ![j].pc = "finally"]
    /\ UNCHANGED <<lock, rz, sw, hc, others>>

\* _run_job, lines 413-414: finally: _lock.release().
run_job_finally(j) ==
    /\ workers[j].pc = "finally"
    /\ lock' = 0
    /\ workers' = [workers EXCEPT ![j].pc = "exit"]
    /\ UNCHANGED <<jobs, rz, sw, hc, others>>

InitJobs ==
    /\ jobs = <<>>
    /\ workers = <<>>
    /\ lock = 0
    /\ rz = NoRealizer
    /\ sw = NoSwitch
    /\ hc = NoClimb
    /\ OthersIdle

NextJobs ==
    \/ \E batch \in Batches, bad \in BOOLEAN : start_job(batch, bad)
    \/ \E j \in JobIds : run_job_acquire(j)
    \/ \E j \in JobIds : run_job_conflict(j)
    \/ \E j \in JobIds : run_job_begin(j)
    \/ \E j \in JobIds, outcome \in Outcomes : run_job_iteration(j, outcome)
    \/ \E j \in JobIds : run_job_done(j)
    \/ \E j \in JobIds : run_job_except(j)
    \/ \E j \in JobIds : run_job_finally(j)

SpecJobs == InitJobs /\ [][NextJobs]_vars

\* The threads are scheduled fairly: a worker that can take a step takes it.
FairJobs == SpecJobs /\ \A j \in 1 .. MaxJobs :
    WF_vars(run_job_acquire(j) \/ run_job_conflict(j) \/ run_job_begin(j)
            \/ (\E outcome \in Outcomes : run_job_iteration(j, outcome))
            \/ run_job_done(j) \/ run_job_except(j) \/ run_job_finally(j))

(***************************************************************************)
(* Sorting and shuffling, as rewrite.py and hh.py use them.                *)
(***************************************************************************)

\* list.sort(reverse=True, key=...) on a list of <<key, payload>>: descending
\* by key and stable, so x goes behind the entries whose key is >= its key.
InsertByKeyDesc(s, x) ==
    LET p == CHOOSE i \in 0 .. Len(s) :
                 /\ \A j \in 1 .. i : s[j][1] >= x[1]
                 /\ i = Len(s) \/ s[i + 1][1] < x[1]
    IN  SubSeq(s, 1, p) \o <<x>> \o SubSeq(s, p + 1, Len(s))

RECURSIVE SortByKeyDesc(_)
SortByKeyDesc(s) ==
    IF s = <<>> THEN <<>>
    ELSE InsertByKeyDesc(SortByKeyDesc(SubSeq(s, 1, Len(s) - 1)), s[Len(s)])

\* Tuples of two integers compare lexicographically.
EdgeLess(e, f) == e[1] < f[1] \/ (e[1] = f[1] /\ e[2] < f[2])

\* sorted(edge_set)
RECURSIVE SortedEdges(_)
SortedEdges(S) ==
    IF S = {} THEN <<>>
    ELSE LET m == CHOOSE e \in S : \A f \in S \ {e} : EdgeLess(e, f)
         IN  <<m>> \o SortedEdges(S \ {m})

Perms(s) ==
    LET n == Len(s)
        P == {p \in [1 .. n -> 1 .. n] : \A i, j \in 1 .. n : p[i] = p[j] => i = j}
    IN  {[i \in 1 .. n |-> s[p[i]]] : p \in P}

Reverse(s) == [i \in 1 .. Len(s) |-> s[Len(s) + 1 - i]]

Rotate(s, r) == SubSeq(s, r + 1, Len(s)) \o SubSeq(s, 1, r)

\* rnd.shuffle(s): the order depends on the seed. Every order of a short list;
\* of a longer list the order as it is, the reverse and the rotations.
Shuffles(s) ==
    IF Len(s) <= FullShuffleLen THEN Perms(s)
    ELSE {s, Reverse(s)} \cup {Rotate(s, r) : r \in 1 .. Len(s) - 1}

RECURSIVE SumSeq(_)
SumSeq(s) == IF s = <<>> THEN 0 ELSE s[1] + SumSeq(Tail(s))

(***************************************************************************)
(* hh.py: is_graphical_havel_hakimi                                        *)
(***************************************************************************)

\* Faulty variant of the loop: "x >= len(d)" in place of "x > len(d)".
RECURSIVE hh_loop_off_by_one(_)
hh_loop_off_by_one(d0) ==
    LET d == SelectSeq(d0, LAMBDA x : x > 0) IN
    IF d = <<>> THEN TRUE
    ELSE LET srt == SortByKeyDesc([i \in 1 .. Len(d) |-> <<d[i], i>>])
             x == srt[1][1]
             rest == [i \in 1 .. Len(d) - 1 |-> srt[i + 1][1]]
         IN  IF x < 0 \/ x >= Len(rest) THEN FALSE
             ELSE LET red == [i \in 1 .. Len(rest) |->
                                 IF i <= x THEN rest[i] - 1 ELSE rest[i]]
                  IN  IF \E i \in 1 .. x : red[i] < 0 THEN FALSE
                      ELSE hh_loop_off_by_one(red)

is_graphical_off_by_one(deg) == hh_loop_off_by_one(deg)

\* hh.py lines 19-33, the body of "while True": drop the entries <= 0, accept
\* the empty list, sort descending, pop the head x, reject x > len(d), take 1
\* off the next x entries.
RECURSIVE hh_loop(_)
hh_loop(d0) ==
    LET d == SelectSeq(d0, LAMBDA x : x > 0) IN
    IF d = <<>> THEN TRUE
    ELSE LET srt == SortByKeyDesc([i \in 1 .. Len(d) |-> <<d[i], i>>])
             x == srt[1][1]
             rest == [i \in 1 .. Len(d) - 1 |-> srt[i + 1][1]]
         IN  IF x < 0 \/ x > Len(rest) THEN FALSE
             ELSE LET red == [i \in 1 .. Len(rest) |->
                                 IF i <= x THEN rest[i] - 1 ELSE rest[i]]
                  IN  IF \E i \in 1 .. x : red[i] < 0 THEN FALSE
                      ELSE hh_loop(red)

is_graphical_havel_hakimi(deg) == hh_loop(deg)

(***************************************************************************)
(* rewrite.py: the realizers. Vertices are 0 .. n-1; deg[v + 1] is the      *)
(* degree of vertex v; an edge is <<u, v>>.                                *)
(***************************************************************************)

edge_key(u, v) == IF u < v THEN <<u, v>> ELSE <<v, u>>

has_edge(edge_set, u, v) == edge_key(u, v) \in edge_set

DegSeqs == UNION {[1 .. n -> 0 .. MaxDeg] : n \in 0 .. MaxN}

\* The calls: realize_greedy(deg), realize_random_greedy(deg, seed),
\* realize_backtracking(deg, seed, max_steps) with seed None or an integer.
RealizerCalls ==
    {[NoRealizer EXCEPT !.pc = "call", !.alg = "greedy", !.deg = deg] :
        deg \in DegSeqs}
    \cup {[NoRealizer EXCEPT !.pc = "call", !.alg = "random", !.deg = deg,
                             !.seeded = TRUE] : deg \in DegSeqs}
    \cup {[NoRealizer EXCEPT !.pc = "call", !.alg = "exact", !.deg = deg,
                             !.seeded = sd, !.max_steps = ms] :
        deg \in DegSeqs, sd \in BOOLEAN, ms \in {StepBudget, DefaultMaxSteps}}

Raise(msg) == rz' = [rz EXCEPT !.pc = "raised", !.err = msg]

Return(edges) == rz' = [rz EXCEPT !.pc = "returned", !.result = edges]

\* _normalize_deg: the entries are integers already; a negative one raises.
normalize_deg_ok(deg) == \A i \in 1 .. Len(deg) : deg[i] >= 0

\* realize_greedy and realize_random_greedy up to the loop of
\* _havel_hakimi_realize (lines 78-82).
havel_hakimi_realize_begin ==
    /\ rz.pc = "call"
    /\ rz.alg \in {"greedy", "random"}
    /\ IF ~normalize_deg_ok(rz.deg) THEN Raise("degrees must be >= 0")
       ELSE rz' = [rz EXCEPT !.pc = "hh_loop",
                             !.items = [i \in 1 .. Len(rz.deg) |-> <<rz.deg[i], i - 1>>],
                             !.edge_set = {}]
    /\ UNCHANGED <<jobs, workers, lock, sw, hc, others>>

\* _havel_hakimi_realize lines 102-110: v is joined to the targets in the
\* given order. The result is <<error, items, edge_set>>.
RECURSIVE connect_targets(_, _, _, _)
connect_targets(v, targets, items, edge_set) ==
    IF targets = <<>> THEN <<"", items, edge_set>>
    ELSE LET idx == targets[1]
             dk == items[idx + 1][1]
             u == items[idx + 1][2]
         IN  IF dk <= 0 THEN <<"non-graphical (ran out of degree)", items, edge_set>>
             ELSE IF has_edge(edge_set, v, u)
                  THEN <<"failed realization (would create multiedge)", items, edge_set>>
             ELSE IF u = v THEN <<"loop detected", items, edge_set>>
             ELSE connect_targets(v, Tail(targets),
                                  [items EXCEPT ![idx + 1] = <<dk - 1, u>>],
                                  edge_set \cup {edge_key(v, u)})

\* list(range(k)), shuffled when there is a generator and k > 1 (lines 98-100).
target_orders(k, shuffled) ==
    LET targets == [i \in 1 .. k |-> i - 1]
    IN  IF shuffled /\ k > 1 THEN Shuffles(targets) ELSE {targets}

\* _havel_hakimi_realize lines 84-112: one pass of "while True".
havel_hakimi_realize_round ==
    /\ rz.pc = "hh_loop"
    /\ LET items == SortByKeyDesc(rz.items) IN
       IF items = <<>> THEN Raise("IndexError: list index out of range")
       ELSE IF items[1][1] = 0 THEN Return(SortedEdges(rz.edge_set))
       ELSE LET k == items[1][1]
                v == items[1][2]
                rest == Tail(items)
            IN  IF k < 0 THEN Raise("non-graphical (negative remainder)")
                ELSE IF k > Len(rest) THEN Raise("non-graphical (degree too large)")
                ELSE \E targets \in target_orders(k, rz.alg = "random") :
                        LET r == connect_targets(v, targets, rest, rz.edge_set)
                        IN  IF r[1] # "" THEN Raise(r[1])
                            ELSE rz' = [rz EXCEPT !.items = r[2], !.edge_set = r[3]]
    /\ UNCHANGED <<jobs, workers, lock, sw, hc, others>>

\* _havel_hakimi_realize lines 84-112 as a function of the call: the edge
\* lists the loop can return from items and edge_set, one for every order the
\* generator can give the targets of every pass; none when the call raises.
RECURSIVE havel_hakimi_results(_, _, _)
havel_hakimi_results(unsorted, edge_set, shuffled) ==
    LET items == SortByKeyDesc(unsorted) IN
    IF items = <<>> THEN {}
    ELSE IF items[1][1] = 0 THEN {SortedEdges(edge_set)}
    ELSE LET k == items[1][1]
             v == items[1][2]
             rest == Tail(items)
         IN  IF k < 0 \/ k > Len(rest) THEN {}
             ELSE UNION {LET r == connect_targets(v, targets, rest, edge_set)
                         IN  IF r[1] # "" THEN {}
                             ELSE havel_hakimi_results(r[2], r[3], shuffled) :
                            targets \in target_orders(k, shuffled)}

\* The edge lists realize_greedy (shuffled FALSE) and realize_random_greedy
\* (shuffled TRUE, over the seeds) return on deg.
GreedyResults(deg, shuffled) ==
    havel_hakimi_results([i \in 1 .. Len(deg) |-> <<deg[i], i - 1>>], {}, shuffled)

\* realize_backtracking lines 168-190: the checks, the list of all pairs
\* (shuffled when a seed is given), sorted by the larger degree of the pair,
\* descending.
realize_backtracking_begin ==
    /\ rz.pc = "call"
    /\ rz.alg = "exact"
    /\ LET n == Len(rz.deg)
           pairs == SortedEdges({<<i, j>> : i \in 0 .. n - 1, j \in 0 .. n - 1} \cap
                                {e \in (0 .. n - 1) \X (0 .. n - 1) : e[1] < e[2]})
           key(e) == IF rz.deg[e[1] + 1] >= rz.deg[e[2] + 1]
                       THEN rz.deg[e[1] + 1] ELSE rz.deg[e[2] + 1]
       IN  IF ~normalize_deg_ok(rz.deg) THEN Raise("degrees must be >= 0")
           ELSE IF SumSeq(rz.deg) % 2 # 0 THEN Raise("non-graphical (sum of degrees odd)")
           ELSE \E order \in (IF rz.seeded THEN Shuffles(pairs) ELSE {pairs}) :
                   LET srt == SortByKeyDesc([i \in 1 .. Len(order) |->
                                                <<key(order[i]), order[i]>>])
                   IN  rz' = [rz EXCEPT !.pc = "bt_loop",
                                        !.d = rz.deg,
                                        !.edge_set = {},
                                        !.steps = 0,
                                        !.all_pairs = [i \in 1 .. Len(srt) |-> srt[i][2]],
                                        !.stack = <<>>,
                                        !.idx = 0]
    /\ UNCHANGED <<jobs, workers, lock, sw, hc, others>>

\* Faulty variant of can_add: an edge that is present already may be added.
can_add_again(d, edge_set, u, v) == d[u + 1] > 0 /\ d[v + 1] > 0

\* realize_backtracking lines 195-196
can_add(d, edge_set, u, v) ==
    d[u + 1] > 0 /\ d[v + 1] > 0 /\ ~has_edge(edge_set, u, v)

\* realize_backtracking lines 198-226: one pass of "while True".
realize_backtracking_step ==
    /\ rz.pc = "bt_loop"
    /\ LET steps == rz.steps + 1 IN
       IF steps > rz.max_steps
         THEN rz' = [rz EXCEPT !.pc = "raised", !.steps = steps,
                               !.err = "backtracking limit exceeded"]
       ELSE IF \A i \in 1 .. Len(rz.d) : rz.d[i] = 0
         THEN rz' = [rz EXCEPT !.pc = "returned", !.steps = steps,
                               !.result = SortedEdges(rz.edge_set)]
       ELSE IF rz.idx >= Len(rz.all_pairs)
         THEN IF rz.stack = <<>>
                THEN rz' = [rz EXCEPT !.pc = "raised", !.steps = steps,
                                      !.err = "non-graphical / no realization found"]
                ELSE LET top == rz.stack[Len(rz.stack)]
                         u == top[2][1]
                         v == top[2][2]
                     IN  rz' = [rz EXCEPT !.steps = steps,
                                          !.stack = SubSeq(rz.stack, 1, Len(rz.stack) - 1),
                                          !.edge_set = rz.edge_set \ {edge_key(u, v)},
                                          !.d = [rz.d EXCEPT ![u + 1] = @ + 1, ![v + 1] = @ + 1],
                                          !.idx = top[1] + 1]
       ELSE LET u == rz.all_pairs[rz.idx + 1][1]
                v == rz.all_pairs[rz.idx + 1][2]
            IN  IF can_add(rz.d, rz.edge_set, u, v)
                  THEN rz' = [rz EXCEPT !.steps = steps,
                                        !.edge_set = rz.edge_set \cup {edge_key(u, v)},
                                        !.d = [rz.d EXCEPT ![u + 1] = @ - 1, ![v + 1] = @ - 1],
                                        !.stack = Append(rz.stack, <<rz.idx, <<u, v>>>>),
                                        !.idx = 0]
                  ELSE rz' = [rz EXCEPT !.steps = steps, !.idx = rz.idx + 1]
    /\ UNCHANGED <<jobs, workers, lock, sw, hc, others>>

InitRealize ==
    /\ jobs = <<>>
    /\ workers = <<>>
    /\ lock = 0
    /\ rz \in RealizerCalls
    /\ sw = NoSwitch
    /\ hc = NoClimb
    /\ OthersIdle

NextRealize ==
    \/ havel_hakimi_realize_begin
    \/ havel_hakimi_realize_round
    \/ realize_backtracking_begin
    \/ realize_backtracking_step

SpecRealize == InitRealize /\ [][NextRealize]_vars


(***************************************************************************)
(* runner.py: normalize_edges; metrics.py: build_adj, is_connected;        *)
(* spectrum.py: spectral_radius                                            *)
(***************************************************************************)

\* runner.py lines 59-82: loops are dropped, pairs are oriented u < v, pairs
\* out of [0, n) and repeats are dropped, the rest is sorted.
normalize_edges(n, edges) ==
    LET oriented == {edge_key(edges[i][1], edges[i][2]) :
                        i \in {k \in 1 .. Len(edges) : edges[k][1] # edges[k][2]}}
    IN  SortedEdges({e \in oriented : 0 <= e[1] /\ e[1] < n /\ 0 <= e[2] /\ e[2] < n})

\* build_adj: adj[v], the neighbours of v in the list of edges.
build_adj(n, edges) ==
    [v \in 0 .. n - 1 |->
        {u \in 0 .. n - 1 :
            u # v /\ \E i \in 1 .. Len(edges) :
                        edges[i] = <<u, v>> \/ edges[i] = <<v, u>>}]

\* The vertices the breadth-first search from the vertices in seen reaches.
RECURSIVE bfs(_, _)
bfs(adj, seen) ==
    LET more == seen \cup UNION {adj[v] : v \in seen}
    IN  IF more = seen THEN seen ELSE bfs(adj, more)

\* is_connected: true for n = 0, else the search from vertex 0 sees n vertices.
is_connected(n, adj) ==
    IF n = 0 THEN TRUE ELSE Cardinality(bfs(adj, {0})) = n

\* From x, where x[v + 1] is the number of walks of some length that start in
\* v, the same for walks that are longer by the given length. rows[v + 1] is
\* the set of neighbours of v.
RECURSIVE walk_counts(_, _, _, _)
walk_counts(n, rows, x, length) ==
    IF length = 0 THEN x
    ELSE walk_counts(n, rows,
             SubSeq([i \in 1 .. n |->
                        SumSeq(SubSeq([j \in 1 .. n |->
                                          IF (j - 1) \in rows[i] THEN x[j] ELSE 0],
                                      1, n))], 1, n),
             length - 1)

\* spectral_radius: the largest eigenvalue of the adjacency matrix, a float.
\* The program only compares the values of graphs of one degree sequence.
\* Integers stand for them here: the number of walks of length 6 in the
\* graph, which grows with the sixth power of the largest eigenvalue and
\* which orders the graphs of one degree sequence on up to 5 vertices as the
\* largest eigenvalue does, equal values included. (Graphs that differ only
\* in the numbering of the vertices get equal values; numpy may return values
\* for them that differ in the last bit.)
spectral_radius(n, edges) ==
    SumSeq(walk_counts(n, SubSeq([i \in 1 .. n |-> build_adj(n, edges)[i - 1]], 1, n),
                       [i \in 1 .. n |-> 1], 6))

(***************************************************************************)
(* meta.py: _two_switch                                                    *)
(***************************************************************************)

\* Faulty variant: the second rewiring is done without the test for the
\* presence of (a,d) and (b,c).
two_switch_unchecked(edge_set, ab, cd) ==
    LET a == ab[1]
        b == ab[2]
        c == cd[1]
        d == cd[2]
        rest == edge_set \ {edge_key(a, b), edge_key(c, d)}
    IN  IF Cardinality({a, b, c, d}) # 4 THEN <<FALSE, edge_set>>
        ELSE IF ~has_edge(edge_set, a, c) /\ ~has_edge(edge_set, b, d)
               THEN <<TRUE, rest \cup {edge_key(a, c), edge_key(b, d)}>>
        ELSE <<TRUE, rest \cup {edge_key(a, d), edge_key(b, c)}>>

\* _two_switch lines 34-66 for the two chosen edges ab = (a, b), cd = (c, d):
\* <<return value, edge_set after the call>>.
two_switch(edge_set, ab, cd) ==
    LET a == ab[1]
        b == ab[2]
        c == cd[1]
        d == cd[2]
        rest == edge_set \ {edge_key(a, b), edge_key(c, d)}
    IN  IF Cardinality({a, b, c, d}) # 4 THEN <<FALSE, edge_set>>
        ELSE IF ~has_edge(edge_set, a, c) /\ ~has_edge(edge_set, b, d)
               THEN <<TRUE, rest \cup {edge_key(a, c), edge_key(b, d)}>>
        ELSE IF ~has_edge(edge_set, a, d) /\ ~has_edge(edge_set, b, c)
               THEN <<TRUE, rest \cup {edge_key(a, d), edge_key(b, c)}>>
        ELSE <<FALSE, edge_set>>

\* _two_switch lines 28-33: with fewer than two edges the call returns False;
\* else rnd.choice picks the two edges, any of the set.
two_switch_outcomes(edge_set) ==
    IF Cardinality(edge_set) < 2 THEN {<<FALSE, edge_set>>}
    ELSE {two_switch(edge_set, ab, cd) : ab \in edge_set, cd \in edge_set}

AllPairs(n) == {e \in (0 .. n - 1) \X (0 .. n - 1) : e[1] < e[2]}

\* The simple graphs on n vertices, as sets of pairs (u, v) with u < v.
SimpleGraphs(n) == SUBSET AllPairs(n)

\* One call _two_switch(n, edge_set, rnd) on the graph.
two_switch_attempt ==
    /\ sw.pc = "switching"
    /\ sw.attempts < MaxAttempts
    /\ \E r \in two_switch_outcomes(sw.edge_set) :
          sw' = [sw EXCEPT !.ok = r[1], !.edge_set = r[2], !.attempts = @ + 1]
    /\ UNCHANGED <<jobs, workers, lock, rz, hc, others>>

InitSwitch ==
    /\ jobs = <<>>
    /\ workers = <<>>
    /\ lock = 0
    /\ rz = NoRealizer
    /\ \E n \in 0 .. MetaN : \E g \in SimpleGraphs(n) :
          sw = [NoSwitch EXCEPT !.pc = "switching", !.n = n, !.start = g,
                                !.edge_set = g]
    /\ hc = NoClimb
    /\ OthersIdle

NextSwitch == two_switch_attempt

SpecSwitch == InitSwitch /\ [][NextSwitch]_vars

(***************************************************************************)
(* meta.py: hill_climb                                                     *)
(***************************************************************************)

\* mode == "min" minimizes, any other mode maximizes (line 119).
Better(mode, cand_sr, cur_sr) ==
    IF mode = "min" THEN cand_sr < cur_sr ELSE cand_sr > cur_sr

\* hill_climb lines 95-103. spectral_radius raises on a graph without
\* vertices (the maximum of no eigenvalue).
hill_climb_begin ==
    /\ hc.pc = "call"
    /\ LET cur_edges == normalize_edges(hc.n, hc.start_edges) IN
       IF hc.n = 0 THEN hc' = [hc EXCEPT !.pc = "raised"]
       ELSE hc' = [hc EXCEPT !.pc = "loop",
                             !.cur_edges = cur_edges,
                             !.cur_set = {cur_edges[i] : i \in 1 .. Len(cur_edges)},
                             !.cur_sr = spectral_radius(hc.n, cur_edges),
                             !.accepted = 0,
                             !.it = 0]
    /\ UNCHANGED <<jobs, workers, lock, rz, sw, others>>

\* Faulty variant of the step: a candidate that is as good as the current
\* graph or worse is taken too.
hill_climb_step_any ==
    /\ hc.pc = "loop"
    /\ hc.it < hc.iterations
    /\ \E r \in two_switch_outcomes(hc.cur_set) :
          LET cand_edges == normalize_edges(hc.n, SortedEdges(r[2])) IN
          IF ~r[1] THEN hc' = [hc EXCEPT !.it = @ + 1]
          ELSE hc' = [hc EXCEPT !.it = @ + 1,
                                !.cur_set = r[2],
                                !.cur_edges = cand_edges,
                                !.cur_sr = spectral_radius(hc.n, cand_edges),
                                !.accepted = @ + 1]
    /\ UNCHANGED <<jobs, workers, lock, rz, sw, others>>

\* Faulty variant of the step: the candidate is not tested for connectivity.
hill_climb_step_unconnected ==
    /\ hc.pc = "loop"
    /\ hc.it < hc.iterations
    /\ \E r \in two_switch_outcomes(hc.cur_set) :
          LET cand_edges == normalize_edges(hc.n, SortedEdges(r[2]))
              cand_sr == spectral_radius(hc.n, cand_edges)
          IN  IF r[1] /\ Better(hc.mode, cand_sr, hc.cur_sr)
                THEN hc' = [hc EXCEPT !.it = @ + 1,
                                      !.cur_set = r[2],
                                      !.cur_edges = cand_edges,
                                      !.cur_sr = cand_sr,
                                      !.accepted = @ + 1]
                ELSE hc' = [hc EXCEPT !.it = @ + 1]
    /\ UNCHANGED <<jobs, workers, lock, rz, sw, others>>

\* hill_climb lines 105-124: one pass of "for _ in range(iterations)".
hill_climb_step ==
    /\ hc.pc = "loop"
    /\ hc.it < hc.iterations
    /\ \E r \in two_switch_outcomes(hc.cur_set) :
          LET cand_set == r[2]
              cand_edges == normalize_edges(hc.n, SortedEdges(cand_set))
              cand_sr == spectral_radius(hc.n, cand_edges)
          IN  IF ~r[1] THEN hc' = [hc EXCEPT !.it = @ + 1]
              ELSE IF hc.connected_only /\ ~is_connected(hc.n, build_adj(hc.n, cand_edges))
                THEN hc' = [hc EXCEPT !.it = @ + 1]
              ELSE IF Better(hc.mode, cand_sr, hc.cur_sr)
                THEN hc' = [hc EXCEPT !.it = @ + 1,
                                      !.cur_set = cand_set,
                                      !.cur_edges = cand_edges,
                                      !.cur_sr = cand_sr,
                                      !.accepted = @ + 1]
              ELSE hc' = [hc EXCEPT !.it = @ + 1]
    /\ UNCHANGED <<jobs, workers, lock, rz, sw, others>>

\* hill_climb lines 126-134: the result holds cur_edges, cur_sr (as
\* "objective" and "spectral_radius"), iterations and accepted.
hill_climb_return ==
    /\ hc.pc = "loop"
    /\ hc.it >= hc.iterations
    /\ hc' = [hc EXCEPT !.pc = "returned"]
    /\ UNCHANGED <<jobs, workers, lock, rz, sw, others>>

\* A list of the same graph that is not normalized: every pair the other way
\* round and in the opposite order, then a loop and the first pair again.
Unnormalized(edges) ==
    Reverse([i \in 1 .. Len(edges) |-> <<edges[i][2], edges[i][1]>>])
        \o <<<<0, 0>>>> \o (IF edges = <<>> THEN <<>> ELSE <<edges[1]>>)

InitClimb ==
    /\ jobs = <<>>
    /\ workers = <<>>
    /\ lock = 0
    /\ rz = NoRealizer
    /\ sw = NoSwitch
    /\ \E n \in 0 .. ClimbN :
       \E g \in {x \in SimpleGraphs(n) : Cardinality(x) <= ClimbEdges} :
       \E iterations \in -1 .. MaxIters, mode \in {"min", "max"} :
       \E co \in BOOLEAN, normal \in BOOLEAN :
          hc = [NoClimb EXCEPT !.pc = "call", !.n = n,
                               !.start_edges = IF normal THEN SortedEdges(g)
                                               ELSE Unnormalized(SortedEdges(g)),
                               !.iterations = iterations, !.mode = mode,
                               !.connected_only = co]
    /\ OthersIdle

NextClimb ==
    \/ hill_climb_begin
    \/ hill_climb_step
    \/ hill_climb_return

SpecClimb == InitClimb /\ [][NextClimb]_vars


(***************************************************************************)
(* meta.py: simulated_annealing. The call uses the record hc for its       *)
(* parameters and locals, with its own values of pc.                       *)
(***************************************************************************)

\* simulated_annealing lines 172-179, as hill_climb lines 95-103.
simulated_annealing_begin ==
    /\ hc.pc = "sa_call"
    /\ LET cur_edges == normalize_edges(hc.n, hc.start_edges) IN
       IF hc.n = 0 THEN hc' = [hc EXCEPT !.pc = "sa_raised"]
       ELSE hc' = [hc EXCEPT !.pc = "sa_loop",
                             !.cur_edges = cur_edges,
                             !.cur_set = {cur_edges[i] : i \in 1 .. Len(cur_edges)},
                             !.cur_sr = spectral_radius(hc.n, cur_edges),
                             !.accepted = 0,
                             !.it = 0]
    /\ UNCHANGED <<jobs, workers, lock, rz, sw, others>>

\* delta of lines 201: negative when the candidate is better under the mode.
Delta(mode, cand_sr, cur_sr) ==
    IF mode = "min" THEN cand_sr - cur_sr ELSE cur_sr - cand_sr

\* Lines 182-185 and 202-206, the values "accept" can take. delta < 0
\* accepts. Else rnd.random(), a float in [0, 1), is compared with
\* exp(-delta / T), T > 0: for delta = 0 that is 1.0 and the move is accepted;
\* for delta > 0 it is in [0, 1) and the move is accepted or not, as the
\* generator has it. cold is t0_temp = t_end = 1e-12: T is 1e-12 in every
\* pass, and for the difference delta > 0 of two spectral radii of graphs on
\* a few vertices exp(-delta / T) is 0.0, which no rnd.random() is below.
Accepts(delta, cold) ==
    IF delta < 0 THEN {TRUE}
    ELSE IF delta = 0 THEN {TRUE}
    ELSE IF cold THEN {FALSE}
    ELSE {TRUE, FALSE}

\* Faulty variant of the step: the 2-switch does its second rewiring without
\* the test for the presence of the new edges.
simulated_annealing_step_unchecked ==
    /\ hc.pc = "sa_loop"
    /\ hc.it < hc.iterations
    /\ \E ab \in hc.cur_set, cd \in hc.cur_set :
          LET r == two_switch_unchecked(hc.cur_set, ab, cd)
              cand_edges == normalize_edges(hc.n, SortedEdges(r[2]))
          IN  IF ~r[1] THEN hc' = [hc EXCEPT !.it = @ + 1]
              ELSE hc' = [hc EXCEPT !.it = @ + 1,
                                    !.cur_set = r[2],
                                    !.cur_edges = cand_edges,
                                    !.cur_sr = spectral_radius(hc.n, cand_edges),
                                    !.accepted = @ + 1]
    /\ UNCHANGED <<jobs, workers, lock, rz, sw, others>>

\* simulated_annealing lines 181-212: one pass of "for it in range(iterations)".
simulated_annealing_step ==
    /\ hc.pc = "sa_loop"
    /\ hc.it < hc.iterations
    /\ \E r \in two_switch_outcomes(hc.cur_set) :
          LET cand_set == r[2]
              cand_edges == normalize_edges(hc.n, SortedEdges(cand_set))
              cand_sr == spectral_radius(hc.n, cand_edges)
          IN  IF ~r[1] THEN hc' = [hc EXCEPT !.it = @ + 1]
              ELSE IF hc.connected_only /\ ~is_connected(hc.n, build_adj(hc.n, cand_edges))
                THEN hc' = [hc EXCEPT !.it = @ + 1]
              ELSE \E accept \in Accepts(Delta(hc.mode, cand_sr, hc.cur_sr), hc.cold) :
                      IF accept
                        THEN hc' = [hc EXCEPT !.it = @ + 1,
                                              !.cur_set = cand_set,
                                              !.cur_edges = cand_edges,
                                              !.cur_sr = cand_sr,
                                              !.accepted = @ + 1]
                        ELSE hc' = [hc EXCEPT !.it = @ + 1]
    /\ UNCHANGED <<jobs, workers, lock, rz, sw, others>>

\* simulated_annealing lines 214-228
simulated_annealing_return ==
    /\ hc.pc = "sa_loop"
    /\ hc.it >= hc.iterations
    /\ hc' = [hc EXCEPT !.pc = "sa_returned"]
    /\ UNCHANGED <<jobs, workers, lock, rz, sw, others>>

\* The calls of simulated_annealing: those of hill_climb, t0_temp and t_end
\* being both 1e-12 (cold) or any other floats.
InitAnneal ==
    /\ jobs = <<>>
    /\ workers = <<>>
    /\ lock = 0
    /\ rz = NoRealizer
    /\ sw = NoSwitch
    /\ \E n \in 0 .. ClimbN :
       \E g \in {x \in SimpleGraphs(n) : Cardinality(x) <= ClimbEdges} :
       \E iterations \in -1 .. MaxIters, mode \in {"min", "max"} :
       \E co \in BOOLEAN, normal \in BOOLEAN, cold \in BOOLEAN :
          hc = [NoClimb EXCEPT !.pc = "sa_call", !.n = n, !.cold = cold,
                               !.start_edges = IF normal THEN SortedEdges(g)
                                               ELSE Unnormalized(SortedEdges(g)),
                               !.iterations = iterations, !.mode = mode,
                               !.connected_only = co]
    /\ OthersIdle

NextAnneal ==
    \/ simulated_annealing_begin
    \/ simulated_annealing_step
    \/ simulated_annealing_return

\* A call of hill_climb or a call of simulated_annealing.
InitMeta == InitClimb \/ InitAnneal

NextMeta == NextClimb \/ NextAnneal

SpecMeta == InitMeta /\ [][NextMeta]_vars

(***************************************************************************)
(* discovery.py: try_create_discovery on the Run and Discovery rows of one *)
(* fingerprint. runs and discs are in the order of insertion; floats that  *)
(* the program compares are whole numbers here.                            *)
(***************************************************************************)

\* Faulty variant of _better: a value that equals the old one is better.
better_or_equal(new_val, old_val, mode, eps) ==
    IF mode = "min" THEN new_val <= old_val - eps ELSE new_val >= old_val + eps

\* _better
better(new_val, old_val, mode, eps) ==
    IF mode = "min" THEN new_val < old_val - eps ELSE new_val > old_val + eps

\* The defaults of tri_ratio, apl_ratio, cl_ratio: 0.5, 1.25, 0.7 as
\* <<numerator, denominator>>.
tri_ratio == <<1, 2>>
apl_ratio == <<5, 4>>
cl_ratio == <<7, 10>>

\* sorted(xs) of a list of numbers
RECURSIVE SortedNumbers(_)
SortedNumbers(xs) ==
    IF xs = <<>> THEN <<>>
    ELSE LET i == CHOOSE k \in 1 .. Len(xs) : \A j \in 1 .. Len(xs) : xs[k] <= xs[j]
         IN  <<xs[i]>> \o SortedNumbers(SubSeq(xs, 1, i - 1) \o SubSeq(xs, i + 1, Len(xs)))

\* sorted(xs)[len(xs) // 2] if xs else None
upper_median(xs) ==
    IF xs = <<>> THEN None ELSE SortedNumbers(xs)[(Len(xs) \div 2) + 1]

\* The values of a column of the rows, without the nulls.
Column(rows, col) ==
    LET all == [i \in 1 .. Len(rows) |-> rows[i][col]]
    IN  SelectSeq(all, LAMBDA x : x # None)

\* The qs of _baseline_stats: the Runs with algorithm "greedy" or "exact".
baseline_sample(runs) == SelectSeq(runs, LAMBDA r : r.algorithm \in {"greedy", "exact"})

\* _baseline_stats: the upper medians over these Runs.
baseline_stats(runs) ==
    LET qs == baseline_sample(runs)
    IN  [tri_median |-> upper_median(Column(qs, "triangles")),
         apl_median |-> upper_median(Column(qs, "avg_path_len")),
         cl_median |-> upper_median(Column(qs, "clustering"))]

\* x < B * ratio, x > B * ratio, x < B / max(ratio, 1e-9) and
\* x > B / max(ratio, 1e-9), for a ratio >= 1e-9.
below_ratio(x, B, ratio) == x * ratio[2] < B * ratio[1]

above_ratio(x, B, ratio) == x * ratio[2] > B * ratio[1]

below_inverse_ratio(x, B, ratio) == x * ratio[1] < B * ratio[2]

above_inverse_ratio(x, B, ratio) == x * ratio[1] > B * ratio[2]

\* _anomaly_flags: a median that is None or 0 is skipped ("and base[...]").
anomaly_flags(run, base) ==
    (IF run.triangles # None /\ base.tri_median # None /\ base.tri_median # 0
       THEN (IF below_ratio(run.triangles, base.tri_median, tri_ratio)
               THEN <<"LOW_TRIANGLES">> ELSE <<>>)
            \o (IF above_inverse_ratio(run.triangles, base.tri_median, tri_ratio)
                  THEN <<"HIGH_TRIANGLES">> ELSE <<>>)
       ELSE <<>>)
    \o (IF run.avg_path_len # None /\ base.apl_median # None /\ base.apl_median # 0
          THEN (IF above_ratio(run.avg_path_len, base.apl_median, apl_ratio)
                  THEN <<"HIGH_APL">> ELSE <<>>)
               \o (IF below_inverse_ratio(run.avg_path_len, base.apl_median, apl_ratio)
                     THEN <<"LOW_APL">> ELSE <<>>)
          ELSE <<>>)
    \o (IF run.clustering # None /\ base.cl_median # None /\ base.cl_median # 0
          THEN (IF below_ratio(run.clustering, base.cl_median, cl_ratio)
                  THEN <<"LOW_CLUSTERING">> ELSE <<>>)
               \o (IF above_inverse_ratio(run.clustering, base.cl_median, cl_ratio)
                     THEN <<"HIGH_CLUSTERING">> ELSE <<>>)
          ELSE <<>>)
    \o (IF run.is_connected = "False" THEN <<"DISCONNECTED">> ELSE <<>>)

\* The Runs that are inserted, without the objective: two of the greedy
\* baseline, a hill-climb result that is disconnected (so without an average
\* path length), one saved by the view, which sets no metric, and a greedy
\* one without a triangle (a tree).
RunKinds ==
    {[algorithm |-> "greedy", time_ms |-> 1, triangles |-> 2, avg_path_len |-> 2,
      clustering |-> 1, is_connected |-> "True"],
     [algorithm |-> "greedy", time_ms |-> 0, triangles |-> 6, avg_path_len |-> 1,
      clustering |-> 1, is_connected |-> "True"],
     [algorithm |-> "hc", time_ms |-> 1, triangles |-> 2, avg_path_len |-> None,
      clustering |-> 1, is_connected |-> "False"],
     [algorithm |-> "greedy", time_ms |-> 0, triangles |-> None, avg_path_len |-> None,
      clustering |-> None, is_connected |-> "None"],
     [algorithm |-> "greedy", time_ms |-> 1, triangles |-> 0, avg_path_len |-> 2,
      clustering |-> 0, is_connected |-> "True"]}

\* The objective values of the Runs; the Run of the view may have none.
ObjectiveValues == 2 .. 4

RunRows ==
    {[algorithm |-> k.algorithm, time_ms |-> k.time_ms, objective_value |-> v,
      triangles |-> k.triangles, avg_path_len |-> k.avg_path_len,
      clustering |-> k.clustering, is_connected |-> k.is_connected] :
        k \in {x \in RunKinds : x.is_connected # "None"}, v \in ObjectiveValues}
    \cup {[algorithm |-> k.algorithm, time_ms |-> k.time_ms, objective_value |-> None,
           triangles |-> k.triangles, avg_path_len |-> k.avg_path_len,
           clustering |-> k.clustering, is_connected |-> k.is_connected] :
        k \in {x \in RunKinds : x.is_connected = "None"}}

\* Run.objects.create: a Run of the fingerprint is inserted.
insert_run(row) ==
    /\ db.pc = "db"
    /\ Len(db.runs) < MaxRuns
    /\ db' = [db EXCEPT !.runs = Append(@, row)]
    /\ UNCHANGED <<searches, ec, gen, fn, au>>

\* The first row of qs.order_by("objective_value", "time_ms") for mode "min",
\* of qs.order_by("-objective_value", "time_ms") else: the rows that no row
\* precedes; the database picks among rows that are equal in both columns.
first_rows(runs, mode) ==
    LET qs == {i \in 1 .. Len(runs) : runs[i].objective_value # None}
        precedes(a, b) ==
            \/ (IF mode = "min" THEN a.objective_value < b.objective_value
                                ELSE a.objective_value > b.objective_value)
            \/ a.objective_value = b.objective_value /\ a.time_ms < b.time_ms
    IN  {i \in qs : \A j \in qs : ~precedes(runs[j], runs[i])}

\* Faulty variant: the most recent Discovery of any mode is taken.
latest_discovery_any_mode(discs, mode) == Len(discs)

\* Discovery.objects.filter(mode=mode).order_by("-created_at").first(): the
\* index of the row in discs, 0 when there is none.
latest_discovery(discs, mode) ==
    LET of_mode == {i \in 1 .. Len(discs) : discs[i].mode = mode}
    IN  IF of_mode = {} THEN 0 ELSE CHOOSE i \in of_mode : \A j \in of_mode : j <= i

\* try_create_discovery(degrees_hash, mode, eps), lines 128-190, in one
\* transaction.
try_create_discovery(mode) ==
    /\ db.pc = "db"
    /\ db.calls < MaxCalls
    /\ IF first_rows(db.runs, mode) = {}
         THEN db' = [db EXCEPT !.calls = @ + 1,
                               !.last = [mode |-> mode, best |-> 0, flags |-> <<>>,
                                         created |-> FALSE]]
         ELSE \E b \in first_rows(db.runs, mode) :
            LET best == db.runs[b]
                p == latest_discovery(db.discs, mode)
                prev_val == IF p = 0 THEN None ELSE db.discs[p].new_best_value
                new_val == best.objective_value
                flags == anomaly_flags(best, baseline_stats(db.runs))
                created(d) ==
                    db' = [db EXCEPT !.calls = @ + 1,
                                     !.discs = Append(@, d),
                                     !.last = [mode |-> mode, best |-> b, flags |-> flags,
                                               created |-> TRUE]]
            IN  IF prev_val = None
                  THEN created([mode |-> mode, best_run |-> b, prev_best_value |-> None,
                                new_best_value |-> new_val, improvement |-> None,
                                anomaly_flags |-> flags, note |-> "FIRST"])
                ELSE IF ~better(new_val, prev_val, mode, db.eps)
                  THEN IF Len(flags) >= 2
                         THEN created([mode |-> mode, best_run |-> b,
                                       prev_best_value |-> prev_val,
                                       new_best_value |-> new_val, improvement |-> 0,
                                       anomaly_flags |-> flags,
                                       note |-> "ANOMALY without new record"])
                         ELSE db' = [db EXCEPT !.calls = @ + 1,
                                               !.last = [mode |-> mode, best |-> b,
                                                         flags |-> flags,
                                                         created |-> FALSE]]
                ELSE created([mode |-> mode, best_run |-> b,
                              prev_best_value |-> prev_val,
                              new_best_value |-> new_val,
                              improvement |-> IF mode = "min" THEN prev_val - new_val
                                                              ELSE new_val - prev_val,
                              anomaly_flags |-> flags, note |-> "NEW BEST"])
    /\ UNCHANGED <<searches, ec, gen, fn, au>>

\* The table of the fingerprint is empty; eps is the one of the job.
InitDiscovery ==
    /\ jobs = <<>>
    /\ workers = <<>>
    /\ lock = 0
    /\ rz = NoRealizer
    /\ sw = NoSwitch
    /\ hc = NoClimb
    /\ \E eps \in -1 .. MaxEps : db = [NoDb EXCEPT !.pc = "db", !.eps = eps]
    /\ ec = NoEnforce
    /\ gen = NoGen
    /\ fn = NoCall
    /\ au = NoIter

NextDiscovery ==
    \/ \E row \in RunRows : insert_run(row)
    \/ \E mode \in {"min", "max"} : try_create_discovery(mode)

SpecDiscovery == InitDiscovery /\ [][NextDiscovery]_vars

(***************************************************************************)
(* connectivity.py: components, enforce_connected_2switch                  *)
(***************************************************************************)

\* The vertices that the search of components reaches from those in seen.
RECURSIVE reach(_, _)
reach(edge_set, seen) ==
    LET more == seen \cup {e[2] : e \in {x \in edge_set : x[1] \in seen}}
                     \cup {e[1] : e \in {x \in edge_set : x[2] \in seen}}
    IN  IF more = seen THEN seen ELSE reach(edge_set, more)

\* components lines 40-58: the loop over s from the vertex s on; visited are
\* the vertices of the components found so far.
RECURSIVE components_from(_, _, _, _)
components_from(n, edge_set, s, visited) ==
    IF s >= n THEN <<>>
    ELSE IF s \in visited THEN components_from(n, edge_set, s + 1, visited)
    ELSE LET comp == reach(edge_set, {s})
         IN  <<comp>> \o components_from(n, edge_set, s + 1, visited \cup comp)

\* components(n, edges): the components as sets, in the order of their
\* smallest vertex.
components(n, edge_set) == components_from(n, edge_set, 0, {})

\* enforce_connected_2switch lines 104-112
enforce_begin ==
    /\ ec.pc = "call"
    /\ ec' = [ec EXCEPT !.pc = "outer",
                        !.edge_set = {edge_key(ec.edges[i][1], ec.edges[i][2]) :
                                         i \in {k \in 1 .. Len(ec.edges) :
                                                   ec.edges[k][1] # ec.edges[k][2]}},
                        !.outer = 0, !.switches = 0]
    /\ UNCHANGED <<searches, db, gen, fn, au>>

\* One try of lines 145-160 with the chosen edges ab of c1 and cd of c2:
\* <<a switch was done, the edge set after the try>>.
enforce_try(edge_set, ab, cd) ==
    LET a == ab[1]
        b == ab[2]
        c == cd[1]
        d == cd[2]
        rest == edge_set \ {edge_key(a, b), edge_key(c, d)}
    IN  IF a # c /\ b # d /\ ~has_edge(edge_set, a, c) /\ ~has_edge(edge_set, b, d)
          THEN <<TRUE, rest \cup {edge_key(a, c), edge_key(b, d)}>>
        ELSE IF a # d /\ b # c /\ ~has_edge(edge_set, a, d) /\ ~has_edge(edge_set, b, c)
          THEN <<TRUE, rest \cup {edge_key(a, d), edge_key(b, c)}>>
        ELSE <<FALSE, edge_set>>

\* The loop of lines 144-162: it ends with the first try that does a switch;
\* it ends without one when max_inner tries have chosen edges that allow none.
enforce_inner(edge_set, c1_edges, c2_edges, max_inner) ==
    LET tries == {enforce_try(edge_set, ab, cd) : ab \in c1_edges, cd \in c2_edges}
    IN  {r \in tries : r[1] /\ max_inner >= 1}
        \cup {r \in {<<FALSE, edge_set>>} :
                 max_inner < 1 \/ <<FALSE, edge_set>> \in tries}

\* Faulty variant of a pass: the edge set is returned right after a switch.
enforce_round_no_check ==
    /\ ec.pc = "outer"
    /\ ec.outer < ec.max_outer
    /\ \E ab \in ec.edge_set, cd \in ec.edge_set :
          LET r == enforce_try(ec.edge_set, ab, cd)
          IN  ec' = [ec EXCEPT !.pc = "returned", !.edge_set = r[2],
                               !.result = SortedEdges(r[2])]
    /\ UNCHANGED <<searches, db, gen, fn, au>>

\* enforce_connected_2switch lines 129-162: one pass of
\* "for _ in range(max_outer)".
enforce_round ==
    /\ ec.pc = "outer"
    /\ ec.outer < ec.max_outer
    /\ LET comps == components(ec.n, ec.edge_set) IN
       IF Len(comps) = 1
         THEN ec' = [ec EXCEPT !.pc = "returned", !.result = SortedEdges(ec.edge_set)]
       ELSE IF Len(comps) = 0
         THEN ec' = [ec EXCEPT !.pc = "raised",
                               !.err = "IndexError: list index out of range"]
       ELSE LET c1_edges == {e \in ec.edge_set : e[1] \in comps[1] /\ e[2] \in comps[1]}
                c2_edges == {e \in ec.edge_set : e[1] \in comps[2] /\ e[2] \in comps[2]}
            IN  IF c1_edges = {} \/ c2_edges = {}
                  THEN ec' = [ec EXCEPT !.pc = "raised",
                                 !.err = "connected_only: cannot connect (isolated vertices / zero-degree)"]
                  ELSE \E r \in enforce_inner(ec.edge_set, c1_edges, c2_edges, ec.max_inner) :
                          ec' = [ec EXCEPT !.outer = @ + 1,
                                           !.edge_set = r[2],
                                           !.switches = IF r[1] THEN @ + 1 ELSE @]
    /\ UNCHANGED <<searches, db, gen, fn, au>>

\* enforce_connected_2switch line 164
enforce_give_up ==
    /\ ec.pc = "outer"
    /\ ec.outer >= ec.max_outer
    /\ ec' = [ec EXCEPT !.pc = "raised",
                        !.err = "connected_only: failed to enforce connectivity within limits"]
    /\ UNCHANGED <<searches, db, gen, fn, au>>

\* The calls: a simple graph as a list of pairs (u, v) with u < v, or with
\* every pair the other way round.
InitEnforce ==
    /\ jobs = <<>>
    /\ workers = <<>>
    /\ lock = 0
    /\ rz = NoRealizer
    /\ sw = NoSwitch
    /\ hc = NoClimb
    /\ db = NoDb
    /\ \E n \in 0 .. EnforceN :
       \E g \in {x \in SimpleGraphs(n) : Cardinality(x) <= EnforceEdges} :
       \E max_outer \in 0 .. MaxOuter, max_inner \in 0 .. MaxInner, flip \in BOOLEAN :
          ec = [NoEnforce EXCEPT
                   !.pc = "call", !.n = n,
                   !.edges = IF flip
                               THEN [i \in 1 .. Cardinality(g) |->
                                        <<SortedEdges(g)[i][2], SortedEdges(g)[i][1]>>]
                               ELSE SortedEdges(g),
                   !.max_outer = max_outer, !.max_inner = max_inner]
    /\ gen = NoGen
    /\ fn = NoCall
    /\ au = NoIter

NextEnforce ==
    \/ enforce_begin
    \/ enforce_round
    \/ enforce_give_up

SpecEnforce == InitEnforce /\ [][NextEnforce]_vars

(***************************************************************************)
(* generator.py: generate_fixed_sum                                        *)
(***************************************************************************)

\* int(d * (target / s)) for s > 0: the quotient d * target / s, truncated
\* towards zero. (The float product and the exact quotient have the same
\* integer part for the values within the bounds.)
scaled(d, target, s) ==
    IF d * target >= 0 THEN (d * target) \div s ELSE -((-(d * target)) \div s)

Min(a, b) == IF a <= b THEN a ELSE b

\* Faulty variant of the test of line 59: every sequence is returned.
gen_check_any ==
    /\ gen.pc = "repair"
    /\ gen.s = 2 * gen.k
    /\ gen' = [gen EXCEPT !.pc = "returned", !.result = gen.deg]
    /\ UNCHANGED <<searches, db, ec, fn, au>>

\* generate_fixed_sum lines 35-46 and 62: the next pass of the loop draws the
\* entries, sets one to 1 when all are 0, and scales; after max_attempts
\* passes the error is raised. rnd.randrange(0) raises ValueError.
gen_attempt ==
    /\ gen.pc = "loop"
    /\ IF gen.attempt >= gen.max_attempts
         THEN gen' = [gen EXCEPT !.pc = "raised",
                                 !.err = "generate_fixed_sum: max_attempts exceeded"]
       ELSE IF gen.n <= 0
         THEN gen' = [gen EXCEPT !.pc = "raised",
                                 !.err = "ValueError: empty range for randrange()"]
       ELSE \E drawn \in [1 .. gen.n -> 0 .. gen.n - 1], i \in 1 .. gen.n :
               LET deg == IF SumSeq(drawn) = 0 THEN [drawn EXCEPT ![i] = 1] ELSE drawn
                   s == SumSeq(deg)
                   sc == [j \in 1 .. gen.n |->
                             Min(gen.n - 1, scaled(deg[j], 2 * gen.k, s))]
               IN  gen' = [gen EXCEPT !.pc = "repair", !.attempt = @ + 1,
                                      !.deg = sc, !.s = SumSeq(sc)]
    /\ UNCHANGED <<searches, db, ec, fn, au>>

\* Lines 47-51: one pass of "while s < target".
gen_repair_up ==
    /\ gen.pc = "repair"
    /\ gen.s < 2 * gen.k
    /\ \E i \in 1 .. gen.n :
          IF gen.deg[i] < gen.n - 1
            THEN gen' = [gen EXCEPT !.deg[i] = @ + 1, !.s = @ + 1]
            ELSE gen' = gen
    /\ UNCHANGED <<searches, db, ec, fn, au>>

\* Lines 53-57: one pass of "while s > target".
gen_repair_down ==
    /\ gen.pc = "repair"
    /\ gen.s > 2 * gen.k
    /\ \E i \in 1 .. gen.n :
          IF gen.deg[i] > 0
            THEN gen' = [gen EXCEPT !.deg[i] = @ - 1, !.s = @ - 1]
            ELSE gen' = gen
    /\ UNCHANGED <<searches, db, ec, fn, au>>

\* Lines 59-60: the test after the two loops; the sequence is returned or the
\* next pass begins.
gen_check ==
    /\ gen.pc = "repair"
    /\ gen.s = 2 * gen.k
    /\ IF SumSeq(gen.deg) = 2 * gen.k
          /\ \A i \in 1 .. gen.n : 0 <= gen.deg[i] /\ gen.deg[i] <= gen.n - 1
         THEN gen' = [gen EXCEPT !.pc = "returned", !.result = gen.deg]
         ELSE gen' = [gen EXCEPT !.pc = "loop"]
    /\ UNCHANGED <<searches, db, ec, fn, au>>

InitGen ==
    /\ jobs = <<>>
    /\ workers = <<>>
    /\ lock = 0
    /\ rz = NoRealizer
    /\ sw = NoSwitch
    /\ hc = NoClimb
    /\ db = NoDb
    /\ ec = NoEnforce
    /\ \E n \in 0 .. GenN, k \in -1 .. GenK, max_attempts \in 0 .. GenAttempts :
          gen = [NoGen EXCEPT !.pc = "loop", !.n = n, !.k = k,
                              !.max_attempts = max_attempts]
    /\ fn = NoCall
    /\ au = NoIter

NextGen ==
    \/ gen_attempt
    \/ gen_repair_up
    \/ gen_repair_down
    \/ gen_check

SpecGen == InitGen /\ [][NextGen]_vars

\* The random choices are fair: a loop that can change the sequence by some
\* choice of the index does so in the end.
FairGen == SpecGen /\ WF_vars(NextGen)

(***************************************************************************)
(* runner.py: normalize_edges, run pair by pair                            *)
(***************************************************************************)

\* list.sort() on a list of pairs: insertion keeps repeated pairs.
InsertEdge(s, x) ==
    LET p == Cardinality({i \in 1 .. Len(s) : ~EdgeLess(x, s[i])})
    IN  SubSeq(s, 1, p) \o <<x>> \o SubSeq(s, p + 1, Len(s))

RECURSIVE sort_edges(_)
sort_edges(s) ==
    IF s = <<>> THEN <<>>
    ELSE InsertEdge(sort_edges(SubSeq(s, 1, Len(s) - 1)), s[Len(s)])

\* Faulty variant of the loop body: the pair is not oriented before the
\* tests.
normalize_edges_step_unoriented ==
    /\ fn.pc = "norm_loop"
    /\ fn.i < Len(fn.edges)
    /\ LET u == fn.edges[fn.i + 1][1]
           v == fn.edges[fn.i + 1][2]
       IN  IF \/ u = v
              \/ ~(0 <= u /\ u < fn.n /\ 0 <= v /\ v < fn.n)
              \/ <<u, v>> \in fn.seen
             THEN fn' = [fn EXCEPT !.i = @ + 1]
             ELSE fn' = [fn EXCEPT !.i = @ + 1,
                                   !.seen = @ \cup {<<u, v>>},
                                   !.norm = Append(@, <<u, v>>)]
    /\ UNCHANGED <<searches, db, ec, gen, au>>

\* normalize_edges lines 62-79: one pass of "for u, v in edges".
normalize_edges_step ==
    /\ fn.pc = "norm_loop"
    /\ fn.i < Len(fn.edges)
    /\ LET u0 == fn.edges[fn.i + 1][1]
           v0 == fn.edges[fn.i + 1][2]
           u == IF u0 > v0 THEN v0 ELSE u0
           v == IF u0 > v0 THEN u0 ELSE v0
       IN  IF \/ u0 = v0
              \/ ~(0 <= u /\ u < fn.n /\ 0 <= v /\ v < fn.n)
              \/ <<u, v>> \in fn.seen
             THEN fn' = [fn EXCEPT !.i = @ + 1]
             ELSE fn' = [fn EXCEPT !.i = @ + 1,
                                   !.seen = @ \cup {<<u, v>>},
                                   !.norm = Append(@, <<u, v>>)]
    /\ UNCHANGED <<searches, db, ec, gen, au>>

\* Lines 81-82: norm.sort(); return norm.
normalize_edges_return ==
    /\ fn.pc = "norm_loop"
    /\ fn.i = Len(fn.edges)
    /\ fn' = [fn EXCEPT !.pc = "norm_returned", !.result = sort_edges(fn.norm),
                        !.calls = @ + 1]
    /\ UNCHANGED <<searches, db, ec, gen, au>>

\* The caller gives the list the first call returned to normalize_edges
\* again, with the same n (views.py line 148 on the list of runner.py 125).
normalize_edges_again ==
    /\ fn.pc = "norm_returned"
    /\ fn.calls = 1
    /\ fn' = [fn EXCEPT !.pc = "norm_loop", !.first = fn.result,
                        !.edges = fn.result, !.i = 0, !.norm = <<>>,
                        !.seen = {}, !.result = <<>>]
    /\ UNCHANGED <<searches, db, ec, gen, au>>

\* Lists of at most NormLen pairs of integers from -1 to NormN.
EdgeLists ==
    UNION {[1 .. len -> (-1 .. NormN) \X (-1 .. NormN)] : len \in 0 .. NormLen}

InitNormalize ==
    /\ jobs = <<>>
    /\ workers = <<>>
    /\ lock = 0
    /\ rz = NoRealizer
    /\ sw = NoSwitch
    /\ hc = NoClimb
    /\ db = NoDb
    /\ ec = NoEnforce
    /\ gen = NoGen
    /\ au = NoIter
    /\ \E n \in 0 .. NormN, edges \in EdgeLists :
          fn = [NoCall EXCEPT !.pc = "norm_loop", !.n = n, !.edges = edges]

NextNormalize ==
    \/ normalize_edges_step
    \/ normalize_edges_return
    \/ normalize_edges_again

SpecNormalize == InitNormalize /\ [][NextNormalize]_vars

(***************************************************************************)
(* graph6.py: _encode_n_graph6, edges_to_graph6                            *)
(* A string is the sequence of the codes of its characters.                *)
(***************************************************************************)

Tilde == 126        \* ord("~")

\* The largest n of the one-character and of the four-character form of the
\* size prefix. Every n of the model is below 2^31, and so below the 2^36
\* from which _encode_n_graph6 raises "graph6: n too large".
OneCharMax == 62
FourCharMax == 258047

\* (x >> shift) & 0x3F
SixBits(x, shift) == (x \div (2 ^ shift)) % 64

\* _encode_n_graph6 lines 20-35, for 0 <= n < 2^31.
encode_n_graph6(n) ==
    IF n <= OneCharMax THEN <<n + 63>>
    ELSE IF n <= FourCharMax
      THEN <<Tilde, SixBits(n, 12) + 63, SixBits(n, 6) + 63, SixBits(n, 0) + 63>>
    ELSE <<Tilde, Tilde>> \o
         [m \in 1 .. 6 |-> SixBits(n, 36 - 6 * m) + 63]

\* Lines 71-74: the bits adj[i][j] for i = row, ..., n-1 and, within a row,
\* j = i+1, ..., n-1.
RECURSIVE upper_triangle_bits(_, _, _)
upper_triangle_bits(n, adj, row) ==
    IF row >= n THEN <<>>
    ELSE SubSeq([c \in 1 .. n - 1 - row |->
                    IF <<row, row + c>> \in adj THEN 1 ELSE 0], 1, n - 1 - row)
         \o upper_triangle_bits(n, adj, row + 1)

\* Faulty variant of lines 76-77: no zero is appended.
pad_bits_none(bits) == bits

\* Lines 76-77: zeros are appended until the length is a multiple of 6.
pad_bits(bits) ==
    bits \o [m \in 1 .. (6 - (Len(bits) % 6)) % 6 |-> 0]

\* Lines 79-84: each group of 6 bits, the first bit the most significant,
\* becomes the character 63 + value; a last group of fewer bits is not
\* reached when the length is a multiple of 6.
pack_bits(bits) ==
    [g \in 1 .. Len(bits) \div 6 |->
        63 + 32 * bits[6 * g - 5] + 16 * bits[6 * g - 4] + 8 * bits[6 * g - 3]
           + 4 * bits[6 * g - 2] + 2 * bits[6 * g - 1] + bits[6 * g]]

\* _encode_n_graph6 called on its own.
encode_n_graph6_call ==
    /\ fn.pc = "size_call"
    /\ IF fn.n < 0
         THEN fn' = [fn EXCEPT !.pc = "size_raised", !.err = "graph6: n must be >= 0"]
       ELSE fn' = [fn EXCEPT !.pc = "size_returned", !.result = encode_n_graph6(fn.n)]
    /\ UNCHANGED <<searches, db, ec, gen, au>>

\* edges_to_graph6 lines 58-69: one pass of "for u, v in edges".
edges_to_graph6_step ==
    /\ fn.pc = "g6_loop"
    /\ fn.i < Len(fn.edges)
    /\ LET u == fn.edges[fn.i + 1][1]
           v == fn.edges[fn.i + 1][2]
       IN  IF u = v
             THEN fn' = [fn EXCEPT !.i = @ + 1]
           ELSE IF ~(0 <= u /\ u < fn.n /\ 0 <= v /\ v < fn.n)
             THEN fn' = [fn EXCEPT !.pc = "g6_raised",
                                   !.err = "graph6: edge out of range"]
           ELSE fn' = [fn EXCEPT !.i = @ + 1,
                                 !.adj = @ \cup {<<u, v>>, <<v, u>>}]
    /\ UNCHANGED <<searches, db, ec, gen, au>>

\* Lines 71-86: the bits, the padding, the characters, and the size prefix
\* before them; _encode_n_graph6 raises for n < 0.
edges_to_graph6_return ==
    /\ fn.pc = "g6_loop"
    /\ fn.i = Len(fn.edges)
    /\ LET data == pack_bits(pad_bits(upper_triangle_bits(fn.n, fn.adj, 0)))
       IN  IF fn.n < 0
             THEN fn' = [fn EXCEPT !.pc = "g6_raised", !.err = "graph6: n must be >= 0"]
           ELSE fn' = [fn EXCEPT !.pc = "g6_returned",
                                 !.result = encode_n_graph6(fn.n) \o data]
    /\ UNCHANGED <<searches, db, ec, gen, au>>

\* Values of n at the ends of the forms of the size prefix.
PrefixSizes ==
    {-1, 0, 1, OneCharMax, OneCharMax + 1, 64, 4095, 4096, FourCharMax,
     FourCharMax + 1, 64 ^ 5, 64 ^ 5 + 4097}

\* Every canonical edge list on n vertices.
CanonicalLists(n) ==
    {SortedEdges(S) :
        S \in SUBSET {e \in (0 .. n - 1) \X (0 .. n - 1) : e[1] < e[2]}}

\* The calls: every canonical edge list on up to G6N vertices, and the same
\* graph as a list that is not normalized; a pair out of range; a few graphs
\* on the largest n of the one-character prefix and the one after it; and
\* _encode_n_graph6 alone on PrefixSizes.
Graph6Calls ==
    UNION {{[NoCall EXCEPT !.pc = "g6_loop", !.n = n, !.edges = E] :
               E \in CanonicalLists(n)} : n \in 0 .. G6N}
    \cup
    UNION {{[NoCall EXCEPT !.pc = "g6_loop", !.n = n, !.edges = Unnormalized(E)] :
               E \in CanonicalLists(n)} : n \in 1 .. G6N}
    \cup
    {[NoCall EXCEPT !.pc = "g6_loop", !.n = n, !.edges = <<<<0, 1>>, <<0, n>>>>] :
        n \in 0 .. G6N}
    \cup
    UNION {{[NoCall EXCEPT !.pc = "g6_loop", !.n = n, !.edges = E] :
               E \in {<<>>, <<<<0, 1>>>>, <<<<0, n - 1>>, <<n - 2, n - 1>>>>}} :
           n \in {OneCharMax, OneCharMax + 1}}
    \cup
    {[NoCall EXCEPT !.pc = "g6_loop", !.n = -1, !.edges = <<>>]}
    \cup
    {[NoCall EXCEPT !.pc = "size_call", !.n = n] : n \in PrefixSizes}

InitGraph6 ==
    /\ jobs = <<>>
    /\ workers = <<>>
    /\ lock = 0
    /\ rz = NoRealizer
    /\ sw = NoSwitch
    /\ hc = NoClimb
    /\ db = NoDb
    /\ ec = NoEnforce
    /\ gen = NoGen
    /\ au = NoIter
    /\ fn \in Graph6Calls

NextGraph6 ==
    \/ encode_n_graph6_call
    \/ edges_to_graph6_step
    \/ edges_to_graph6_return

SpecGraph6 == InitGraph6 /\ [][NextGraph6]_vars

(***************************************************************************)
(* metrics.py: count_triangles; the realizers on the degrees of the path   *)
(* on 5 vertices                                                           *)
(***************************************************************************)

\* count_triangles: for every u and every neighbour v > u the common
\* neighbours of u and v are counted; the sum is divided by 3.
count_triangles(n, adj) ==
    Cardinality({t \in (0 .. n - 1) \X (0 .. n - 1) \X (0 .. n - 1) :
                    /\ t[2] \in adj[t[1]]
                    /\ t[2] > t[1]
                    /\ t[3] \in adj[t[1]] \cap adj[t[2]]}) \div 3

PathDegrees == <<1, 2, 2, 2, 1>>

\* realize_greedy(D), realize_random_greedy(D, seed) and
\* realize_backtracking(D, seed), seed None or an integer, on D = PathDegrees.
PathCalls ==
    {[NoRealizer EXCEPT !.pc = "call", !.alg = "greedy", !.deg = PathDegrees],
     [NoRealizer EXCEPT !.pc = "call", !.alg = "random", !.deg = PathDegrees,
                        !.seeded = TRUE]}
    \cup {[NoRealizer EXCEPT !.pc = "call", !.alg = "exact", !.deg = PathDegrees,
                             !.seeded = sd, !.max_steps = DefaultMaxSteps] :
             sd \in BOOLEAN}

InitPath ==
    /\ jobs = <<>>
    /\ workers = <<>>
    /\ lock = 0
    /\ rz \in PathCalls
    /\ sw = NoSwitch
    /\ hc = NoClimb
    /\ OthersIdle

SpecPath == InitPath /\ [][NextRealize]_vars

(***************************************************************************)
(* autosearch.py: the batch loop of _run_job (lines 274-404) for one job   *)
(* with n = 5, k = 4 and random_reps = 1, and run_algorithm_timeout. The    *)
(* worker process of run_algorithm_timeout is the realizer call rz, the     *)
(* searches are the call hc. try_create_discovery is followed by its       *)
(* return value only.                                                      *)
(***************************************************************************)

\* What generate_fixed_sum(5, 4, seed) returns: the degrees of a path whose
\* ends are the last two vertices, which are graphical, or degrees that are
\* not (seeds 76 and 9 give these two).
DegChoices == {<<2, 2, 2, 1, 1>>, <<3, 3, 1, 1, 0>>}

\* s of line 277 and the seed of line 283.
IterSeed(a) == IF a.seed = None THEN None ELSE a.seed + a.i

GenSeed(a) == IF a.seed = None THEN None ELSE IterSeed(a) + a.att

\* The fields of the Run that _save_run_from_result creates which the model
\* follows: algorithm, seed, and triangles and is_connected as
\* _compute_structural takes them from the normalized edges (lines 75, 79,
\* 81, 92, 104 and 107).
SavedRun(algorithm, deg, seed, edges) ==
    LET norm == normalize_edges(Len(deg), edges)
        adj == build_adj(Len(deg), norm)
    IN  [algorithm |-> algorithm, seed |-> seed,
         triangles |-> count_triangles(Len(deg), adj),
         is_connected |-> is_connected(Len(deg), adj)]

\* _edges_connected
edges_connected(n, edges) == is_connected(n, build_adj(n, edges))

\* consider_baseline (lines 302-315)
consider_baseline(a, edges) ==
    IF a.connected_only /\ ~edges_connected(Len(a.deg), edges) THEN a
    ELSE LET sr == spectral_radius(Len(a.deg), normalize_edges(Len(a.deg), edges))
         IN  IF ~a.has_baseline \/ Better(a.mode, sr, a.baseline_best_sr)
               THEN [a EXCEPT !.has_baseline = TRUE, !.baseline_best_sr = sr,
                              !.baseline_edges = edges]
               ELSE a

\* The locals of a pass that are not read again are reset.
Forget(a) ==
    [a EXCEPT !.has_baseline = FALSE, !.baseline_edges = <<>>,
              !.baseline_best_sr = 0, !.waited = 0, !.er_ok = FALSE,
              !.er_edges = <<>>, !.att = 0]

\* The except clause of lines 399-400: the rest of the pass is left out.
IterError(a) == [Forget(a) EXCEPT !.pc = "progress", !.last_message = "iter error"]

\* Saved and considered (lines 319-320, 326-327, 332-333).
SaveAndConsider(a, algorithm, seed, edges) ==
    consider_baseline([a EXCEPT !.runs = Append(@, SavedRun(algorithm, a.deg, seed, edges))],
                      edges)

IterRest == <<jobs, workers, lock, sw, db, ec, gen, fn>>

\* Lines 275-277 and 406: the next pass of "for i in range(batch)", or the
\* end of the loop.
iter_next ==
    /\ au.pc = "loop"
    /\ IF au.i >= au.batch
         THEN au' = [au EXCEPT !.pc = "job_done", !.last_message = "done"]
         ELSE au' = [Forget(au) EXCEPT !.pc = "deg", !.deg = <<>>]
    /\ UNCHANGED <<IterRest, rz, hc>>

\* Lines 280-290: one pass of "for att in range(max_deg_attempts)". The
\* generator returns for a seed what it returned for it before.
iter_generate ==
    /\ au.pc = "deg"
    /\ au.att < au.max_deg_attempts
    /\ \E deg_try \in DegChoices :
          /\ GenSeed(au) # None =>
                \A d \in au.drawn : d[1] = GenSeed(au) => d[2] = deg_try
          /\ LET a == [au EXCEPT !.gen_calls = @ \cup {<<au.i, au.att, GenSeed(au)>>},
                                 !.drawn = IF GenSeed(au) = None THEN @
                                           ELSE @ \cup {<<GenSeed(au), deg_try>>}]
             IN  IF is_graphical_havel_hakimi(deg_try)
                   THEN au' = [a EXCEPT !.deg = deg_try, !.pc = "greedy"]
                   ELSE au' = [a EXCEPT !.att = @ + 1]
    /\ UNCHANGED <<IterRest, rz, hc>>

\* Lines 292-297: no graphical sequence was generated.
iter_skip ==
    /\ au.pc = "deg"
    /\ au.att >= au.max_deg_attempts
    /\ au' = [Forget(au) EXCEPT !.pc = "loop", !.last_message = "skip",
                                !.done = @ + 1, !.i = @ + 1]
    /\ UNCHANGED <<IterRest, rz, hc>>

\* Lines 317-320. run_algorithm and _save_run_from_result call labelg, which
\* can fail.
iter_greedy ==
    /\ au.pc = "greedy"
    /\ IF ~au.do_greedy THEN au' = [au EXCEPT !.pc = "random"]
       ELSE \E fails \in BOOLEAN, edges \in GreedyResults(au.deg, FALSE) :
               IF fails THEN au' = IterError(au)
               ELSE au' = [SaveAndConsider(au, "greedy", IterSeed(au), edges)
                              EXCEPT !.pc = "random"]
    /\ UNCHANGED <<IterRest, rz, hc>>

\* Lines 322-327, for random_reps = 1: rs = s * 1000 + 0.
iter_random ==
    /\ au.pc = "random"
    /\ IF ~au.do_random THEN au' = [au EXCEPT !.pc = "exact"]
       ELSE \E fails \in BOOLEAN, edges \in GreedyResults(au.deg, TRUE) :
               IF fails THEN au' = IterError(au)
               ELSE au' = [SaveAndConsider(au, "random",
                                IF au.seed = None THEN None ELSE IterSeed(au) * 1000,
                                edges)
                              EXCEPT !.pc = "exact"]
    /\ UNCHANGED <<IterRest, rz, hc>>

\* Lines 329-330 and run_algorithm_timeout lines 170-176: the worker process
\* is started on run_algorithm("exact", deg, seed=s).
run_algorithm_timeout_start ==
    /\ au.pc = "exact"
    /\ IF ~au.do_exact
         THEN au' = [au EXCEPT !.pc = "baseline"] /\ rz' = rz
         ELSE /\ au' = [au EXCEPT !.pc = "exact_wait", !.x = "join", !.q = <<>>,
                                  !.alive = TRUE, !.waited = 0,
                                  !.er_ok = FALSE, !.er_edges = <<>>]
              /\ rz' = [NoRealizer EXCEPT !.pc = "call", !.alg = "exact",
                                          !.deg = au.deg,
                                          !.seeded = (au.seed # None),
                                          !.max_steps = DefaultMaxSteps]
    /\ UNCHANGED <<IterRest, hc>>

\* _run_algorithm_in_subprocess lines 143-147: the worker puts ("ok", res) or
\* ("err", str(e)) on the channel.
worker_put ==
    /\ au.x \in {"join", "alive_check"}
    /\ au.alive
    /\ au.q = <<>>
    /\ rz.pc \in {"returned", "raised"}
    /\ au' = [au EXCEPT !.q = <<[status |-> IF rz.pc = "returned" THEN "ok" ELSE "err",
                                 payload |-> rz.result]>>]
    /\ UNCHANGED <<IterRest, rz, hc>>

\* realize_backtracking lines 199-201 in the worker: steps goes beyond
\* max_steps. The default limit is out of reach of the degrees of DegChoices,
\* so the excess is taken as an event that any step of the search may be.
worker_step_limit ==
    /\ au.x \in {"join", "alive_check"}
    /\ au.alive
    /\ rz.pc = "bt_loop"
    /\ Raise("backtracking limit exceeded")
    /\ UNCHANGED <<IterRest, au, hc>>

\* The worker process ends: after its put, or before it when it is killed
\* from outside.
worker_exit ==
    /\ au.x \in {"join", "alive_check"}
    /\ au.alive
    /\ au' = [au EXCEPT !.alive = FALSE]
    /\ rz' = NoRealizer
    /\ UNCHANGED <<IterRest, hc>>

\* Line 177, p.join(timeout_s): returns when the worker has ended, or when
\* timeout_s has passed.
run_algorithm_timeout_join ==
    /\ au.x = "join"
    /\ au' = [au EXCEPT !.x = "alive_check",
                        !.waited = IF au.alive THEN @ + 1 ELSE @]
    /\ UNCHANGED <<IterRest, rz, hc>>

\* Faulty variant of lines 179-192: the status of the item is not looked at.
run_algorithm_timeout_finish_any ==
    /\ au.x = "alive_check"
    /\ IF au.alive
         THEN au' = [au EXCEPT !.x = "idle", !.pc = "exact_done", !.alive = FALSE,
                               !.waited = @ + 1, !.er_ok = FALSE]
         ELSE IF au.q = <<>>
           THEN au' = [au EXCEPT !.x = "idle", !.pc = "exact_done", !.er_ok = FALSE]
         ELSE au' = [au EXCEPT !.x = "idle", !.pc = "exact_done", !.q = <<>>,
                               !.er_ok = TRUE, !.er_edges = au.q[1].payload]
    /\ rz' = NoRealizer
    /\ UNCHANGED <<IterRest, hc>>

\* Lines 179-192: a worker that is alive is terminated and joined for at
\* most 1.0 s, and None is returned; else the item of the channel is taken:
\* None when there is none or its status is not "ok", else its payload.
run_algorithm_timeout_finish ==
    /\ au.x = "alive_check"
    /\ IF au.alive
         THEN au' = [au EXCEPT !.x = "idle", !.pc = "exact_done", !.alive = FALSE,
                               !.waited = @ + 1, !.er_ok = FALSE]
         ELSE IF au.q = <<>>
           THEN au' = [au EXCEPT !.x = "idle", !.pc = "exact_done", !.er_ok = FALSE]
         ELSE IF au.q[1].status # "ok"
           THEN au' = [au EXCEPT !.x = "idle", !.pc = "exact_done", !.q = <<>>,
                                 !.er_ok = FALSE]
         ELSE au' = [au EXCEPT !.x = "idle", !.pc = "exact_done", !.q = <<>>,
                               !.er_ok = TRUE, !.er_edges = au.q[1].payload]
    /\ rz' = NoRealizer
    /\ UNCHANGED <<IterRest, hc>>

\* Lines 331-333
iter_exact_done ==
    /\ au.pc = "exact_done"
    /\ IF ~au.er_ok THEN au' = [au EXCEPT !.pc = "baseline", !.waited = 0]
       ELSE \E fails \in BOOLEAN :
               IF fails THEN au' = IterError(au)
               ELSE au' = [SaveAndConsider(au, "exact_realization", IterSeed(au),
                                           au.er_edges)
                              EXCEPT !.pc = "baseline", !.waited = 0,
                                     !.er_ok = FALSE, !.er_edges = <<>>]
    /\ UNCHANGED <<IterRest, rz, hc>>

\* Lines 335-341: without a baseline the greedy realization is the start;
\* hill_climb is called without connected_only, which is False by default.
iter_hill_climb_call ==
    /\ au.pc = "baseline"
    /\ \E fails \in BOOLEAN, edges \in GreedyResults(au.deg, FALSE) :
          LET start_edges == IF au.has_baseline THEN au.baseline_edges ELSE edges IN
          IF ~au.has_baseline /\ fails
            THEN au' = IterError(au) /\ hc' = hc
            ELSE /\ au' = [au EXCEPT !.pc = "hc_run", !.baseline_edges = start_edges]
                 /\ hc' = [NoClimb EXCEPT !.pc = "call", !.n = Len(au.deg),
                                          !.start_edges = start_edges,
                                          !.iterations = au.iters,
                                          !.mode = au.mode]
    /\ UNCHANGED <<IterRest, rz>>

\* Faulty variant of lines 342-367: the result of hill_climb is saved without
\* the test for connectivity.
iter_hill_climb_save_any ==
    /\ au.pc = "hc_run"
    /\ hc.pc = "returned"
    /\ \E fails \in BOOLEAN :
          IF fails THEN au' = IterError(au) /\ hc' = NoClimb
          ELSE /\ au' = [Forget(au) EXCEPT !.pc = "sa_run",
                                   !.runs = Append(@, SavedRun("hc", au.deg, IterSeed(au),
                                                               hc.cur_edges))]
               /\ hc' = [NoClimb EXCEPT !.pc = "sa_call", !.n = Len(au.deg),
                                        !.start_edges = au.baseline_edges,
                                        !.iterations = au.iters,
                                        !.mode = au.mode]
    /\ UNCHANGED <<IterRest, rz>>

\* Lines 342-367: the result of hill_climb is saved unless connected_only
\* holds and it is disconnected; simulated_annealing is called, without
\* connected_only too.
iter_hill_climb_save ==
    /\ au.pc = "hc_run"
    /\ hc.pc = "returned"
    /\ \E fails \in BOOLEAN :
          LET save == ~au.connected_only \/ edges_connected(Len(au.deg), hc.cur_edges) IN
          IF save /\ fails THEN au' = IterError(au) /\ hc' = NoClimb
          ELSE /\ au' = [Forget(au) EXCEPT !.pc = "sa_run",
                                   !.runs = IF save
                                              THEN Append(@, SavedRun("hc", au.deg,
                                                              IterSeed(au), hc.cur_edges))
                                              ELSE @]
               /\ hc' = [NoClimb EXCEPT !.pc = "sa_call", !.n = Len(au.deg),
                                        !.start_edges = au.baseline_edges,
                                        !.iterations = au.iters,
                                        !.mode = au.mode]
    /\ UNCHANGED <<IterRest, rz>>

\* Lines 368-383
iter_annealing_save ==
    /\ au.pc = "sa_run"
    /\ hc.pc = "sa_returned"
    /\ \E fails \in BOOLEAN :
          LET save == ~au.connected_only \/ edges_connected(Len(au.deg), hc.cur_edges) IN
          IF save /\ fails THEN au' = IterError(au)
          ELSE au' = [au EXCEPT !.pc = "discovery",
                                !.runs = IF save
                                           THEN Append(@, SavedRun("sa", au.deg,
                                                           IterSeed(au), hc.cur_edges))
                                           ELSE @]
    /\ hc' = NoClimb
    /\ UNCHANGED <<IterRest, rz>>

\* Lines 385-397: try_create_discovery returns a Discovery or None.
iter_discovery ==
    /\ au.pc = "discovery"
    /\ \E disc \in BOOLEAN :
          au' = [au EXCEPT !.pc = "progress",
                           !.last_message = IF disc THEN "DISCOVERY" ELSE "ok"]
    /\ UNCHANGED <<IterRest, rz, hc>>

\* Lines 402-404
iter_progress ==
    /\ au.pc = "progress"
    /\ au' = [au EXCEPT !.pc = "loop", !.done = @ + 1, !.i = @ + 1]
    /\ UNCHANGED <<IterRest, rz, hc>>

\* The jobs: batch and max_deg_attempts up to their bounds, seed None or 0.
InitIteration ==
    /\ jobs = <<>>
    /\ workers = <<>>
    /\ lock = 0
    /\ rz = NoRealizer
    /\ sw = NoSwitch
    /\ hc = NoClimb
    /\ db = NoDb
    /\ ec = NoEnforce
    /\ gen = NoGen
    /\ fn = NoCall
    /\ \E co \in BOOLEAN, mode \in {"min", "max"}, dg \in BOOLEAN, dr \in BOOLEAN,
          de \in BOOLEAN, seed \in {None, 0}, batch \in 1 .. IterBatch,
          mda \in 1 .. IterAttempts, iters \in 1 .. IterIters :
          au = [NoIter EXCEPT !.pc = "loop", !.connected_only = co, !.mode = mode,
                              !.do_greedy = dg, !.do_random = dr, !.do_exact = de,
                              !.seed = seed, !.batch = batch,
                              !.max_deg_attempts = mda, !.iters = iters]

NextIteration ==
    \/ iter_next
    \/ iter_generate
    \/ iter_skip
    \/ iter_greedy
    \/ iter_random
    \/ run_algorithm_timeout_start
    \/ realize_backtracking_begin
    \/ realize_backtracking_step
    \/ worker_step_limit
    \/ worker_put
    \/ worker_exit
    \/ run_algorithm_timeout_join
    \/ run_algorithm_timeout_finish
    \/ iter_exact_done
    \/ iter_hill_climb_call
    \/ hill_climb_begin
    \/ hill_climb_step
    \/ hill_climb_return
    \/ iter_hill_climb_save
    \/ simulated_annealing_begin
    \/ simulated_annealing_step
    \/ simulated_annealing_return
    \/ iter_annealing_save
    \/ iter_discovery
    \/ iter_progress

SpecIteration == InitIteration /\ [][NextIteration]_vars

\* The jobs with do_exact = false, over more passes of the batch loop: no
\* worker process is started.
InitSeeds ==
    /\ jobs = <<>>
    /\ workers = <<>>
    /\ lock = 0
    /\ rz = NoRealizer
    /\ sw = NoSwitch
    /\ hc = NoClimb
    /\ db = NoDb
    /\ ec = NoEnforce
    /\ gen = NoGen
    /\ fn = NoCall
    /\ \E co \in BOOLEAN, mode \in {"min", "max"}, dg \in BOOLEAN, dr \in BOOLEAN,
          seed \in {None, 0}, batch \in 1 .. SeedBatch,
          mda \in 1 .. IterAttempts, iters \in 1 .. IterIters :
          au = [NoIter EXCEPT !.pc = "loop", !.connected_only = co, !.mode = mode,
                              !.do_greedy = dg, !.do_random = dr, !.do_exact = FALSE,
                              !.seed = seed, !.batch = batch,
                              !.max_deg_attempts = mda, !.iters = iters]

NextSeeds ==
    \/ iter_next
    \/ iter_generate
    \/ iter_skip
    \/ iter_greedy
    \/ iter_random
    \/ run_algorithm_timeout_start
    \/ iter_hill_climb_call
    \/ hill_climb_begin
    \/ hill_climb_step
    \/ hill_climb_return
    \/ iter_hill_climb_save
    \/ simulated_annealing_begin
    \/ simulated_annealing_step
    \/ simulated_annealing_return
    \/ iter_annealing_save
    \/ iter_discovery
    \/ iter_progress

SpecSeeds == InitSeeds /\ [][NextSeeds]_vars

(***************************************************************************)
(* Claims about the job runtime, checked under SpecJobs.                   *)
(***************************************************************************)
Running == {j \in JobIds : jobs[j].status = "running"}

\* C1: at most one AutoSearchJob has status "running" at any time, and a job
\* is "running" only while its own worker holds the global job lock.
C1_AtMostOneRunning ==
    /\ Cardinality(Running) <= 1
    /\ \A j \in Running : lock = j /\ workers[j].acquired

\* A job is running while the worker of another job has just failed the
\* try-lock.
C1_Witness ==
    \E j \in JobIds, k \in JobIds :
        /\ jobs[j].status = "running"
        /\ workers[k].pc = "conflict"

\* C2: a worker that acquired the lock has released it when it has left
\* _run_job, on the done path and on the failed path alike; the lock is held
\* only by a worker that is between the acquire and the release, so a job
\* whose worker tries the lock after the others have left obtains it.
C2_LockReleasedOnExit ==
    /\ \A j \in JobIds : workers[j].pc = "exit" => lock # j
    /\ lock # 0 => /\ lock \in JobIds
                   /\ workers[lock].pc \in {"begin", "loop", "except", "finally"}
    /\ (\A j \in JobIds : workers[j].pc \in {"acquire", "conflict", "exit"}) => lock = 0

\* A job whose worker held the lock and left through the error handler has
\* ended failed, and a job created after it is running.
C2_Witness ==
    \E j \in JobIds, m \in JobIds :
        /\ j < m
        /\ workers[j].acquired /\ workers[j].pc = "exit" /\ jobs[j].status = "failed"
        /\ jobs[m].status = "running"

\* C3: a worker whose try-lock failed marks its own job failed with error
\* "Another job is running" and returns; the job never becomes running, no
\* batch iteration is executed, progress_done stays 0, and the step that
\* marks the job failed leaves the lock as it is.
C3_Step(j) ==
    LET w == workers[j] IN
    (~w.acquired /\ w.pc \in {"conflict", "exit"}) =>
        /\ jobs'[j].status # "running"
        /\ jobs'[j].progress_done = 0
        /\ workers'[j].i = 0 /\ workers'[j].done = 0
        /\ ~workers'[j].acquired
        /\ (w.pc = "conflict" /\ workers'[j] # w) =>
               /\ workers'[j].pc = "exit"
               /\ jobs'[j].status = "failed"
               /\ jobs'[j].error = "Another job is running"
               /\ lock' = lock
        /\ w.pc = "exit" => (jobs'[j] = jobs[j] /\ workers'[j] = w)

C3_ConflictFailsFast == [][\A j \in JobIds : C3_Step(j)]_vars

\* The worker of a job has returned after a failed try-lock and the job that
\* holds the lock is still running.
C3_Witness ==
    \E j \in JobIds, k \in JobIds :
        /\ ~workers[j].acquired /\ workers[j].pc = "exit"
        /\ jobs[j].status = "failed" /\ jobs[j].error = "Another job is running"
        /\ jobs[k].status = "running" /\ lock = k

\* C4 as stated: the status changes only along queued -> running -> done or
\* queued -> running -> failed.
C4_Original ==
    [][\A j \in JobIds :
          jobs'[j].status # jobs[j].status =>
              <<jobs[j].status, jobs'[j].status>> \in
                  {<<"queued", "running">>, <<"running", "done">>,
                   <<"running", "failed">>}]_vars

\* C4 amended: the status changes only along queued -> running -> done,
\* queued -> running -> failed or queued -> failed (the try-lock failed, or an
\* error was raised before the job was saved as running); a job that ends in
\* done was running before, and done and failed are never left.
C4_Lifecycle ==
    [][\A j \in JobIds :
          jobs'[j].status # jobs[j].status =>
              <<jobs[j].status, jobs'[j].status>> \in
                  {<<"queued", "running">>, <<"running", "done">>,
                   <<"running", "failed">>, <<"queued", "failed">>}]_vars

\* One job is done and the other went from queued to failed on the try-lock.
C4_Witness ==
    \E j \in JobIds, k \in JobIds :
        /\ jobs[j].status = "done"
        /\ jobs[k].status = "failed" /\ ~workers[k].acquired

\* C5 as stated: progress_done counts the iterations passed, whatever they
\* ended in; it never exceeds progress_total; a done job has
\* progress_done = progress_total = batch.
C5_Original ==
    \A j \in JobIds :
        /\ jobs[j].progress_done = workers[j].i
        /\ jobs[j].progress_done <= jobs[j].progress_total
        /\ jobs[j].status = "done" =>
               /\ jobs[j].progress_done = jobs[j].progress_total
               /\ jobs[j].progress_total = jobs[j].params.batch

\* C5 amended: progress_done counts the iterations passed, whatever they ended
\* in; for batch >= 0 it never exceeds progress_total and a done job has
\* progress_done = progress_total = batch; for batch < 0 a done job has
\* progress_done = 0 and progress_total = batch.
C5_Progress ==
    \A j \in JobIds :
        /\ jobs[j].progress_done = workers[j].i
        /\ jobs[j].params.batch >= 0 =>
               jobs[j].progress_done <= jobs[j].progress_total
        /\ jobs[j].status = "done" =>
               /\ jobs[j].progress_total = jobs[j].params.batch
               /\ jobs[j].progress_done =
                      (IF jobs[j].params.batch >= 0 THEN jobs[j].params.batch ELSE 0)

\* An iteration that raised has been counted as the second of the batch.
C5_Witness ==
    \E j \in JobIds :
        /\ jobs[j].status = "running"
        /\ jobs[j].last_message = "iter error"
        /\ jobs[j].progress_done = 2
        /\ jobs[j].progress_total = 2

(***************************************************************************)
(* Claims about the realizers, checked under SpecRealize.                  *)
(***************************************************************************)

\* The number of edges of the list E that have v as an endpoint.
DegreeIn(E, v) == Cardinality({i \in 1 .. Len(E) : E[i][1] = v \/ E[i][2] = v})

\* E realizes D: |E| = sum(D)/2, every vertex v is an endpoint of exactly D[v]
\* edges, every pair is (u, v) with 0 <= u < v < n, and E is strictly
\* ascending (so no pair is repeated).
Realizes(D, E) ==
    /\ 2 * Len(E) = SumSeq(D)
    /\ \A v \in 0 .. Len(D) - 1 : DegreeIn(E, v) = D[v + 1]
    /\ \A i \in 1 .. Len(E) : 0 <= E[i][1] /\ E[i][1] < E[i][2] /\ E[i][2] < Len(D)
    /\ \A i \in 1 .. Len(E) - 1 : EdgeLess(E[i], E[i + 1])

Finished == rz.pc \in {"returned", "raised"}

\* C6: whenever realize_greedy, realize_random_greedy or realize_backtracking
\* returns an edge list for a degree sequence, the list realizes the sequence.
C6_ReturnedRealizes == rz.pc = "returned" => Realizes(rz.deg, rz.result)

\* The seeded backtracking search has returned five edges after more steps
\* than a search without a dead end takes.
C6_Witness ==
    /\ rz.pc = "returned" /\ rz.alg = "exact" /\ rz.seeded
    /\ Len(rz.result) = 5
    /\ rz.steps > 6

\* C7 as stated: on a sequence that is_graphical_havel_hakimi accepts, of any
\* length from 0 on, each realizer returns a valid realization or raises the
\* limit-exceeded error, and no other error.
C7_Original ==
    (Finished /\ is_graphical_havel_hakimi(rz.deg)) =>
        \/ rz.pc = "returned" /\ Realizes(rz.deg, rz.result)
        \/ rz.pc = "raised" /\ rz.err = "backtracking limit exceeded"

NonGraphicalErrors ==
    {"non-graphical (sum of degrees odd)", "non-graphical / no realization found"}

\* C8 as stated: on a sequence that is_graphical_havel_hakimi rejects,
\* realize_backtracking raises a non-graphical error.
C8_Original ==
    (Finished /\ rz.alg = "exact" /\ ~is_graphical_havel_hakimi(rz.deg)) =>
        rz.pc = "raised" /\ rz.err \in NonGraphicalErrors

\* C8 amended: on a sequence that is_graphical_havel_hakimi rejects,
\* realize_backtracking never returns an edge set: it raises a non-graphical
\* error or, when max_steps runs out first, the limit-exceeded error. On a
\* sequence that the test accepts it returns a realization unless max_steps
\* runs out, so the test accepts exactly the sequences for which the search,
\* given enough steps, finds a graph.
C8_ExactAgreesWithHH ==
    (Finished /\ rz.alg = "exact") =>
        IF is_graphical_havel_hakimi(rz.deg)
          THEN \/ rz.pc = "returned" /\ Realizes(rz.deg, rz.result)
               \/ rz.pc = "raised" /\ rz.err = "backtracking limit exceeded"
          ELSE /\ rz.pc = "raised"
               /\ rz.err \in NonGraphicalErrors \cup {"backtracking limit exceeded"}

\* The search has run dry on a rejected sequence of even sum, after undoing
\* edges it had added.
C8_Witness ==
    /\ rz.pc = "raised" /\ rz.alg = "exact"
    /\ ~is_graphical_havel_hakimi(rz.deg)
    /\ rz.err = "non-graphical / no realization found"
    /\ rz.steps > 20

(***************************************************************************)
(* Claims about the 2-switch (SpecSwitch) and hill_climb (SpecClimb).      *)
(***************************************************************************)

\* The number of edges of the set S that have v as an endpoint.
DegreeOf(S, v) == Cardinality({e \in S : e[1] = v \/ e[2] = v})

\* C9: after any sequence of attempted 2-switches from a simple graph, every
\* vertex has the degree it had at the start, the number of edges is
\* unchanged, and every pair of the edge set is (u, v) with u < v (so there is
\* no loop and no pair twice).
C9_TwoSwitchPreserves ==
    sw.pc = "switching" =>
        /\ \A v \in 0 .. sw.n - 1 : DegreeOf(sw.edge_set, v) = DegreeOf(sw.start, v)
        /\ Cardinality(sw.edge_set) = Cardinality(sw.start)
        /\ \A e \in sw.edge_set : 0 <= e[1] /\ e[1] < e[2] /\ e[2] < sw.n

\* The graph has changed and the last of the attempts was rejected.
C9_Witness ==
    /\ sw.pc = "switching"
    /\ sw.attempts = MaxAttempts
    /\ sw.edge_set # sw.start
    /\ ~sw.ok

NoWorse(mode, a, b) == IF mode = "min" THEN a <= b ELSE a >= b

\* The steps of hill_climb keep the objective from getting worse, the
\* objective is the one of the current graph, the returned objective is no
\* worse than the one of the (normalized) start graph, and the returned
\* accepted_moves is at most the limit.
C10_Step(limit) ==
    /\ (hc.pc = "loop" /\ hc'.pc = "loop") =>
           /\ NoWorse(hc.mode, hc'.cur_sr, hc.cur_sr)
           /\ hc'.cur_sr = spectral_radius(hc.n, hc'.cur_edges)
           /\ hc'.accepted <= hc'.it
    /\ hc'.pc = "returned" =>
           /\ NoWorse(hc.mode, hc'.cur_sr,
                      spectral_radius(hc.n, normalize_edges(hc.n, hc.start_edges)))
           /\ hc'.accepted <= limit

MetaStarted == hc.pc \in {"loop", "returned", "sa_loop", "sa_returned"}

\* E is a canonical simple graph on n vertices: pairs (u, v) with
\* 0 <= u < v < n, strictly ascending.
Canonical(n, E) ==
    /\ \A i \in 1 .. Len(E) : 0 <= E[i][1] /\ E[i][1] < E[i][2] /\ E[i][2] < n
    /\ \A i \in 1 .. Len(E) - 1 : EdgeLess(E[i], E[i + 1])

\* C11: in hill_climb and simulated_annealing the current edge list, and so
\* the returned one, is a canonical simple graph in which every vertex has the
\* degree it has in the normalized start graph, and cur_set holds its edges.
C11_DegreesFixed ==
    MetaStarted =>
        /\ Canonical(hc.n, hc.cur_edges)
        /\ hc.cur_set = {hc.cur_edges[i] : i \in 1 .. Len(hc.cur_edges)}
        /\ \A v \in 0 .. hc.n - 1 :
              DegreeIn(hc.cur_edges, v) =
                  DegreeIn(normalize_edges(hc.n, hc.start_edges), v)

\* simulated_annealing has returned, after two accepted moves, a graph that is
\* worse under the mode than the start graph, which was given as a list that
\* is not normalized.
C11_Witness ==
    /\ hc.pc = "sa_returned"
    /\ hc.accepted = 2
    /\ hc.start_edges # normalize_edges(hc.n, hc.start_edges)
    /\ Delta(hc.mode, hc.cur_sr,
             spectral_radius(hc.n, normalize_edges(hc.n, hc.start_edges))) > 0

StartConnected ==
    is_connected(hc.n, build_adj(hc.n, normalize_edges(hc.n, hc.start_edges)))

\* C12: with connected_only = true and a connected start graph, the current
\* graph of hill_climb and of simulated_annealing is connected after every
\* step, and so is the returned graph.
C12_StaysConnected ==
    (MetaStarted /\ hc.connected_only /\ StartConnected) =>
        is_connected(hc.n, build_adj(hc.n, hc.cur_edges))

\* With connected_only, simulated_annealing has moved from a connected start
\* graph on 5 vertices, which has a 2-switch that disconnects it, to another
\* graph and has returned.
C12_Witness ==
    /\ hc.pc = "sa_returned"
    /\ hc.connected_only /\ StartConnected
    /\ hc.n = 5
    /\ hc.accepted >= 1
    /\ hc.cur_edges # normalize_edges(hc.n, hc.start_edges)
    /\ \E r \in two_switch_outcomes(hc.cur_set) :
          r[1] /\ ~is_connected(hc.n, build_adj(hc.n, SortedEdges(r[2])))

(***************************************************************************)
(* Claims about try_create_discovery, checked under SpecDiscovery.         *)
(***************************************************************************)

StrictlyBetter(mode, a, b) == IF mode = "min" THEN a < b ELSE a > b

\* C13: with eps >= 0, the new_best_value of each "NEW BEST" Discovery is
\* strictly better under its mode than the new_best_value of every earlier
\* "NEW BEST" Discovery of that mode.
C13_NewBestImproves ==
    \A i \in 1 .. Len(db.discs), j \in 1 .. Len(db.discs) :
        (/\ db.eps >= 0
         /\ i < j
         /\ db.discs[i].mode = db.discs[j].mode
         /\ db.discs[i].note = "NEW BEST"
         /\ db.discs[j].note = "NEW BEST") =>
            StrictlyBetter(db.discs[j].mode, db.discs[j].new_best_value,
                           db.discs[i].new_best_value)

\* The Discoveries of mode "min" are a FIRST, a NEW BEST, an ANOMALY without
\* new record and a second NEW BEST, in this order.
C13_Witness ==
    /\ db.eps >= 0
    /\ Len(db.discs) = 4
    /\ \A i \in 1 .. 4 : db.discs[i].mode = "min"
    /\ db.discs[1].note = "FIRST"
    /\ db.discs[2].note = "NEW BEST"
    /\ db.discs[3].note = "ANOMALY without new record"
    /\ db.discs[4].note = "NEW BEST"

\* The Discovery rows of the mode, in the order of insertion.
OfMode(discs, mode) == SelectSeq(discs, LAMBDA d : d.mode = mode)

\* The best objective value of the Runs under the mode.
BestValue(runs, mode) ==
    LET vals == {runs[i].objective_value : i \in 1 .. Len(runs)} \ {None}
    IN  CHOOSE v \in vals : \A w \in vals : IF mode = "min" THEN v <= w ELSE v >= w

Abs(x) == IF x < 0 THEN -x ELSE x

\* What one call of try_create_discovery(mode) does to the table, by the
\* table of C14; flags are the anomaly flags of the best Run of the call.
C14_Call(mode, flags) ==
    LET runs == db.runs
        new == BestValue(runs, mode)
        earlier == OfMode(db.discs, mode)
        prev == earlier[Len(earlier)].new_best_value
        d == db'.discs[Len(db'.discs)]
        one_created ==
            /\ db'.discs = Append(db.discs, d)
            /\ d.mode = mode
            /\ d.new_best_value = new
            /\ runs[d.best_run].objective_value = new
            /\ d.anomaly_flags = flags
    IN  IF \A i \in 1 .. Len(runs) : runs[i].objective_value = None
          THEN db'.discs = db.discs
        ELSE IF earlier = <<>>
          THEN /\ one_created
               /\ d.note = "FIRST"
               /\ d.improvement = None /\ d.prev_best_value = None
        ELSE IF better(new, prev, mode, db.eps)
          THEN /\ one_created
               /\ d.note = "NEW BEST"
               /\ d.improvement = Abs(prev - new) /\ d.prev_best_value = prev
        ELSE IF Len(flags) >= 2
          THEN /\ one_created
               /\ d.note = "ANOMALY without new record"
               /\ d.improvement = 0 /\ d.prev_best_value = prev
        ELSE db'.discs = db.discs

\* C14: a call of try_create_discovery creates at most one Discovery, and
\* which one by the table: none without a Run that has an objective; FIRST
\* (improvement and prev_best_value null) without an earlier Discovery of the
\* mode; NEW BEST with improvement |prev - new| when the best value is better
\* than the previous one by more than eps; ANOMALY without new record with
\* improvement 0 when it is not and the best Run has at least 2 flags; none
\* else. No step changes a Discovery that exists.
C14_DiscoveryTable ==
    [][/\ db'.calls = db.calls + 1 =>
              C14_Call(db'.last.mode,
                       IF db'.last.best = 0 THEN <<>>
                       ELSE anomaly_flags(db.runs[db'.last.best], baseline_stats(db.runs)))
       /\ db'.calls = db.calls => db'.discs = db.discs
       /\ SubSeq(db'.discs, 1, Len(db.discs)) = db.discs]_vars

\* The last call, of mode "max", created nothing because the best Run, not
\* better than the previous value, has one flag only; a NEW BEST and an
\* ANOMALY without new record were created before.
C14_Witness ==
    /\ db.calls = MaxCalls
    /\ ~db.last.created /\ db.last.best # 0 /\ Len(db.last.flags) = 1
    /\ db.last.mode = "max"
    /\ \E i \in 1 .. Len(db.discs) : db.discs[i].note = "NEW BEST"
    /\ \E i \in 1 .. Len(db.discs) : db.discs[i].note = "ANOMALY without new record"

(***************************************************************************)
(* Claims about enforce_connected_2switch, checked under SpecEnforce.      *)
(***************************************************************************)

\* C15: an edge list that enforce_connected_2switch returns is a canonical
\* simple graph with exactly one connected component in which every vertex
\* has the degree it has in the input; until the call returns or raises, the
\* edge set keeps the degrees of the input.
C15_EnforcerConnectsOrRaises ==
    /\ ec.pc = "returned" =>
          /\ ec.n >= 1
          /\ reach({ec.result[i] : i \in 1 .. Len(ec.result)}, {0}) = 0 .. ec.n - 1
          /\ Canonical(ec.n, ec.result)
          /\ \A v \in 0 .. ec.n - 1 : DegreeIn(ec.result, v) = DegreeIn(ec.edges, v)
    /\ ec.pc \in {"outer", "raised"} =>
          \A v \in 0 .. ec.n - 1 : DegreeOf(ec.edge_set, v) = DegreeIn(ec.edges, v)

\* A graph on 6 vertices has been returned after two switches, the first of
\* which left two components.
C15_Witness ==
    /\ ec.pc = "returned"
    /\ ec.n = 6
    /\ ec.switches = 2
    /\ Len(components(ec.n, {edge_key(ec.edges[i][1], ec.edges[i][2]) :
                                i \in 1 .. Len(ec.edges)})) = 2

(***************************************************************************)
(* Claims about generate_fixed_sum, checked under SpecGen and FairGen.     *)
(***************************************************************************)

\* C16: every sequence that generate_fixed_sum returns has length n, sum 2k
\* and every entry in [0, n-1].
C16_GeneratedInRange ==
    gen.pc = "returned" =>
        /\ Len(gen.result) = gen.n
        /\ SumSeq(gen.result) = 2 * gen.k
        /\ \A i \in 1 .. gen.n : 0 <= gen.result[i] /\ gen.result[i] <= gen.n - 1

\* For n = 3 and k = 2 the sequence (2, 2, 0) has been returned.
C16_Witness ==
    /\ gen.pc = "returned"
    /\ gen.n = 3 /\ gen.k = 2
    /\ gen.result = <<2, 2, 0>>

GenFinished == gen.pc \in {"returned", "raised"}

\* C17 as stated: for every n >= 1 and k >= 0, whether or not 2k <= n(n-1),
\* generate_fixed_sum returns a sequence or raises in the end, under fair
\* random choices.
C17_Original == (gen.n >= 1 /\ gen.k >= 0) => <>GenFinished

(***************************************************************************)
(* Claims about normalize_edges, checked under SpecNormalize.              *)
(***************************************************************************)

\* The pairs (u, v) with 0 <= u < v < n such that (u, v) or (v, u) occurs
\* in the list L.
PairsOf(n, L) ==
    {e \in (0 .. n - 1) \X (0 .. n - 1) :
        /\ e[1] < e[2]
        /\ \E i \in 1 .. Len(L) : L[i] = e \/ L[i] = <<e[2], e[1]>>}

\* C18: normalize_edges(n, L) returns, for every list L of integer pairs, the
\* strictly ascending list of exactly the pairs (u, v) with 0 <= u < v < n
\* such that (u, v) or (v, u) occurs in L, no step of it fails, and
\* normalizing the result again returns it unchanged.
C18_NormalizeCanonical ==
    /\ fn.err = ""
    /\ fn.pc = "norm_returned" =>
          /\ \A i \in 1 .. Len(fn.result) - 1 :
                EdgeLess(fn.result[i], fn.result[i + 1])
          /\ {fn.result[i] : i \in 1 .. Len(fn.result)} =
                PairsOf(fn.n, IF fn.calls = 1 THEN fn.edges ELSE fn.first)
          /\ fn.calls = 2 => fn.result = fn.first

\* The second call has returned the two pairs of a list that held one of them
\* twice, the other way round the second time, before the smaller one.
C18_Witness ==
    /\ fn.pc = "norm_returned"
    /\ fn.calls = 2
    /\ fn.n = 3
    /\ fn.result = <<<<0, 1>>, <<1, 2>>>>
    /\ fn.first = fn.result

(***************************************************************************)
(* Claims about the graph6 encoding, checked under SpecGraph6.             *)
(***************************************************************************)

\* The bits adj[i][j] for j = col, ..., n-1 and, within a column,
\* i = 0, ..., j-1.
RECURSIVE ColumnMajorBits(_, _, _)
ColumnMajorBits(n, adj, col) ==
    IF col >= n THEN <<>>
    ELSE SubSeq([r \in 1 .. col |-> IF <<r - 1, col>> \in adj THEN 1 ELSE 0], 1, col)
         \o ColumnMajorBits(n, adj, col + 1)

\* The bits of a bit sequence zero-padded to a multiple of 6, as characters.
Characters(bits) ==
    LET padded == bits \o [m \in 1 .. (6 - (Len(bits) % 6)) % 6 |-> 0]
    IN  [g \in 1 .. Len(padded) \div 6 |->
            63 + SumSeq([b \in 1 .. 6 |-> padded[6 * (g - 1) + b] * (2 ^ (6 - b))])]

\* The length of the size prefix of a graph6 string.
PrefixLen(str) ==
    IF str[1] # Tilde THEN 1 ELSE IF str[2] # Tilde THEN 4 ELSE 8

\* C19 as stated: the string edges_to_graph6 returns is the size prefix of n
\* followed by the characters of the upper triangle in column-major order
\* (for j = 1..n-1, for i = 0..j-1 the bit adj[i][j]).
C19_Original ==
    fn.pc = "g6_returned" =>
        SubSeq(fn.result, PrefixLen(fn.result) + 1, Len(fn.result)) =
            Characters(ColumnMajorBits(fn.n, fn.adj, 1))

\* The number a size prefix stands for.
DecodeSize(str) ==
    IF str[1] # Tilde THEN str[1] - 63
    ELSE IF str[2] # Tilde
      THEN (str[2] - 63) * 4096 + (str[3] - 63) * 64 + (str[4] - 63)
    ELSE SumSeq([m \in 1 .. 6 |-> (str[2 + m] - 63) * (64 ^ (6 - m))])

\* The bits of the characters after the size prefix.
DecodeBits(str) ==
    LET p == PrefixLen(str)
    IN  [b \in 1 .. 6 * (Len(str) - p) |->
            ((str[p + 1 + ((b - 1) \div 6)] - 63) \div (2 ^ (5 - ((b - 1) % 6)))) % 2]

\* The pairs (i, j), i < j, whose bit is 1 when the bits from position
\* offset + 1 on list rows row, ..., n-1 of the upper triangle.
RECURSIVE DecodeRows(_, _, _, _)
DecodeRows(n, bits, row, offset) ==
    IF row >= n THEN {}
    ELSE {<<row, row + c>> : c \in {c \in 1 .. n - 1 - row : bits[offset + c] = 1}}
         \cup DecodeRows(n, bits, row + 1, offset + n - 1 - row)

\* The edges of the list the call was given: the pairs that are no loops,
\* oriented u < v.
GivenEdges ==
    {edge_key(fn.edges[i][1], fn.edges[i][2]) :
        i \in {m \in 1 .. Len(fn.edges) : fn.edges[m][1] # fn.edges[m][2]}}

\* C20: decoding the size prefix and the payload bits of the string
\* edges_to_graph6(n, E) returns, under the encoder's own order of the upper
\* triangle, yields n and E again (so two different edge sets on the same n
\* never get the same string); the size prefix alone decodes to n up to the
\* largest n it encodes.
C20_Graph6RoundTrip ==
    /\ fn.pc = "size_returned" =>
          /\ Len(fn.result) = PrefixLen(fn.result)
          /\ DecodeSize(fn.result) = fn.n
    /\ fn.pc = "g6_returned" =>
          /\ DecodeSize(fn.result) = fn.n
          /\ 6 * (Len(fn.result) - PrefixLen(fn.result)) >= (fn.n * (fn.n - 1)) \div 2
          /\ 6 * (Len(fn.result) - PrefixLen(fn.result)) < (fn.n * (fn.n - 1)) \div 2 + 6
          /\ DecodeRows(fn.n, SubSeq(DecodeBits(fn.result), 1, 6 * (Len(fn.result) - PrefixLen(fn.result))), 0, 0)
                = GivenEdges

\* The path 0 - 3, 1 - 2 on 4 vertices has been encoded: its string differs
\* from the one of the edges 0 - 2, 1 - 3, which has as many edges.
C20_Witness ==
    /\ fn.pc = "g6_returned"
    /\ fn.n = 4
    /\ fn.edges = <<<<0, 3>>, <<1, 2>>>>
    /\ fn.result = <<67, 63 + 12>>

(***************************************************************************)
(* Claims about simulated annealing at t0 = t_end = 1e-12, under SpecMeta. *)
(***************************************************************************)

\* C21 as stated: simulated_annealing with t0 = t_end = 1e-12 accepts exactly
\* the candidates hill_climb accepts: a pass that takes the candidate takes a
\* strict improvement under the mode.
C21_Original ==
    [][(hc.pc = "sa_loop" /\ hc.cold /\ hc'.accepted = hc.accepted + 1)
          => Better(hc.mode, hc'.cur_sr, hc.cur_sr)]_vars

(***************************************************************************)
(* Claims about the realizers on [1,2,2,2,1], checked under SpecPath.      *)
(***************************************************************************)

\* C22 as stated: the realization of D = [1,2,2,2,1] that a realizer returns
\* is connected and has 0 triangles.
C22_Original ==
    (rz.pc = "returned" /\ rz.deg = PathDegrees) =>
        LET adj == build_adj(5, rz.result)
        IN  is_connected(5, adj) /\ count_triangles(5, adj) = 0

(***************************************************************************)
(* Claims about the randomized greedy realizer, checked under SpecRealize. *)
(***************************************************************************)

\* C23 as stated: there are a graphical degree sequence D and two seeds for
\* which realize_random_greedy returns different edge sets, so that its result
\* is not always the result of realize_greedy on D. D is sought among the
\* degree sequences of the calls whenever realize_random_greedy is called.
C23_Original ==
    rz.alg = "random" =>
        \E deg \in DegSeqs :
            /\ is_graphical_havel_hakimi(deg)
            /\ \E e1 \in GreedyResults(deg, TRUE), e2 \in GreedyResults(deg, TRUE) :
                  e1 # e2
            /\ GreedyResults(deg, TRUE) # GreedyResults(deg, FALSE)

\* What holds instead in every call: the list realize_random_greedy returns
\* is the one realize_greedy returns on the same degrees.
RandomGreedyIsGreedy ==
    (rz.pc = "returned" /\ rz.alg = "random") =>
        rz.result \in GreedyResults(rz.deg, FALSE)

(***************************************************************************)
(* Claims about one pass of the batch loop, checked under SpecIteration.   *)
(***************************************************************************)

\* C24 as stated: in a job with connected_only = true whose searches start
\* from a connected baseline, hill_climb and simulated_annealing never move
\* their current graph to a disconnected candidate.
C24_Original ==
    [][(/\ au.connected_only
        /\ au.pc \in {"hc_run", "sa_run"}
        /\ hc.pc \in {"loop", "sa_loop"}
        /\ edges_connected(hc.n, hc.start_edges)
        /\ hc'.cur_set # hc.cur_set)
          => edges_connected(hc.n, hc'.cur_edges)]_vars

\* The runs of the searches that the job has saved.
SearchRuns == {i \in 1 .. Len(au.runs) : au.runs[i].algorithm \in {"hc", "sa"}}

C25_Saved == au.connected_only => \A i \in SearchRuns : au.runs[i].is_connected

C25_Skip ==
    (/\ au.connected_only
     /\ au.pc \in {"hc_run", "sa_run"}
     /\ hc.pc \in {"returned", "sa_returned"}
     /\ ~edges_connected(Len(au.deg), hc.cur_edges)
     /\ au' # au)
       => /\ au'.runs = au.runs
          /\ au'.last_message = au.last_message
          /\ au'.pc = IF au.pc = "hc_run" THEN "sa_run" ELSE "discovery"

\* C25: in a job with connected_only every saved run of hill climb or of
\* annealing has a connected edge list; a disconnected result of a search is
\* not saved, and the pass goes on without an error, to the annealing call
\* after hill climb and to the discovery call after annealing.
C25_ConnectedSearchRuns == []C25_Saved /\ [][C25_Skip]_vars

\* A job with connected_only is at the discovery call of a pass in which a
\* run was saved for annealing and none for hill climb, whose result was
\* disconnected.
C25_Witness ==
    /\ au.connected_only
    /\ au.pc = "discovery"
    /\ \E i \in SearchRuns : au.runs[i].algorithm = "sa"
    /\ \A i \in SearchRuns : au.runs[i].algorithm # "hc"

\* The flags that the ratios give for the best Run of the call and the
\* medians B of the baseline, a median of 0 included.
FlagOf(flags, name) == \E i \in 1 .. Len(flags) : flags[i] = name

C26_Call ==
    (db.pc = "db" /\ db'.calls = db.calls + 1 /\ db'.last.best # 0)
      => LET best == db.runs[db'.last.best]
             base == baseline_stats(db.runs)
             flags == db'.last.flags
         IN  /\ (best.triangles # None /\ base.tri_median # None)
                   => /\ FlagOf(flags, "LOW_TRIANGLES")
                            <=> best.triangles * 2 < base.tri_median
                      /\ FlagOf(flags, "HIGH_TRIANGLES")
                            <=> best.triangles > base.tri_median * 2
             /\ (best.avg_path_len # None /\ base.apl_median # None)
                   => /\ FlagOf(flags, "HIGH_APL")
                            <=> best.avg_path_len * 4 > base.apl_median * 5
                      /\ FlagOf(flags, "LOW_APL")
                            <=> best.avg_path_len * 5 < base.apl_median * 4
             /\ (best.clustering # None /\ base.cl_median # None)
                   => /\ FlagOf(flags, "LOW_CLUSTERING")
                            <=> best.clustering * 10 < base.cl_median * 7
                      /\ FlagOf(flags, "HIGH_CLUSTERING")
                            <=> best.clustering * 7 > base.cl_median * 10

\* C26: at every call of try_create_discovery with a best Run, for each
\* metric that the best Run has and whose baseline median B is not null (0
\* included), the LOW and HIGH flags of the metric are set exactly when the
\* metric is beyond B times the ratio or B divided by the ratio (ratios 1/2,
\* 5/4 and 7/10).
C26_Original == [][C26_Call]_vars

\* What the calls do keep: the same for the medians that are neither null
\* nor 0.
FlagsOfNonZeroMedians ==
    (db.pc = "db" /\ db'.calls = db.calls + 1 /\ db'.last.best # 0)
      => LET best == db.runs[db'.last.best]
             base == baseline_stats(db.runs)
             flags == db'.last.flags
         IN  /\ (best.triangles # None /\ base.tri_median \notin {None, 0})
                   => /\ FlagOf(flags, "LOW_TRIANGLES")
                            <=> best.triangles * 2 < base.tri_median
                      /\ FlagOf(flags, "HIGH_TRIANGLES")
                            <=> best.triangles > base.tri_median * 2
             /\ (best.avg_path_len # None /\ base.apl_median \notin {None, 0})
                   => /\ FlagOf(flags, "HIGH_APL")
                            <=> best.avg_path_len * 4 > base.apl_median * 5
                      /\ FlagOf(flags, "LOW_APL")
                            <=> best.avg_path_len * 5 < base.apl_median * 4
             /\ (best.clustering # None /\ base.cl_median \notin {None, 0})
                   => /\ FlagOf(flags, "LOW_CLUSTERING")
                            <=> best.clustering * 10 < base.cl_median * 7
                      /\ FlagOf(flags, "HIGH_CLUSTERING")
                            <=> best.clustering * 7 > base.cl_median * 10

AnomalyFlagsOfNonZeroMedians == [][FlagsOfNonZeroMedians]_vars

\* The Runs of the exact realization that the job has saved.
ExactRuns == {i \in 1 .. Len(au.runs) : au.runs[i].algorithm = "exact_realization"}

\* C27: every Run that the job saves for the exact realization is part of
\* the sample from which _baseline_stats takes the medians of the
\* fingerprint.
C27_Original ==
    \A i \in ExactRuns :
       \E j \in 1 .. Len(baseline_sample(au.runs)) : baseline_sample(au.runs)[j] = au.runs[i]

\* The call of run_algorithm_timeout returns: what it returns for what the
\* worker did, and the waits that it made (one of timeout_s at most, one of
\* the grace of 1.0 s at most).
C28_Return ==
    (au.x = "alive_check" /\ au'.x = "idle")
      => /\ au'.pc = "exact_done"
         /\ au'.last_message = au.last_message
         /\ au'.waited <= 2
         /\ ~au'.alive
         /\ au.alive => (~au'.er_ok /\ au.waited = 1)
         /\ au'.er_ok <=> (~au.alive /\ au.q # <<>> /\ au.q[1].status = "ok")
         /\ au'.er_ok => au'.er_edges = au.q[1].payload

\* The job after a call that returned None.
C28_Null ==
    (au.pc = "exact_done" /\ ~au.er_ok /\ au' # au)
      => /\ au'.runs = au.runs
         /\ au'.last_message = au.last_message
         /\ au'.pc = "baseline"

\* C28: run_algorithm_timeout returns without raising after at most the
\* timeout and the grace of the termination; a worker that is alive at the
\* deadline is terminated and None is returned; None is returned too when
\* the worker put ("err", msg) or nothing; a result is returned only if the
\* worker put ("ok", result). After None the job saves no Run of the exact
\* realization and goes on with the pass.
C28_TimeoutGuard == [][C28_Return /\ C28_Null]_vars

\* The call has returned None after the timeout and the grace: the worker
\* was alive at the deadline and was terminated; the job has saved no Run of
\* the exact realization.
C28_Witness ==
    /\ au.pc = "exact_done"
    /\ au.x = "idle"
    /\ ~au.er_ok
    /\ ~au.alive
    /\ au.waited = 2
    /\ ExactRuns = {}

\* C29: in a job with a base seed no call of the degree generator gets a
\* seed that a call of another pass of the batch loop gets.
C29_Original ==
    au.seed # None =>
        \A c1 \in au.gen_calls, c2 \in au.gen_calls : c1[1] # c2[1] => c1[3] # c2[3]

\* The Discoveries of the mode that are records: FIRST or NEW BEST.
Records(discs, mode) == SelectSeq(discs, LAMBDA d : d.mode = mode /\ d.note \in {"FIRST", "NEW BEST"})

C30_Call ==
    (/\ db.pc = "db"
     /\ db'.calls = db.calls + 1
     /\ db'.last.best # 0
     /\ Records(db.discs, db'.last.mode) # <<>>)
       => LET mode == db'.last.mode
              recs == Records(db.discs, mode)
              record == recs[Len(recs)].new_best_value
          IN  (IF mode = "min" THEN BestValue(db.runs, mode) < record - db.eps
                               ELSE BestValue(db.runs, mode) > record + db.eps)
                 => /\ Len(db'.discs) = Len(db.discs) + 1
                    /\ db'.discs[Len(db'.discs)].note = "NEW BEST"

\* C30: a call of try_create_discovery at which the best objective value of
\* the Runs is better by more than eps than the new_best_value of the most
\* recent FIRST or NEW BEST Discovery of the mode creates a NEW BEST
\* Discovery, whatever ANOMALY without new record Discoveries lie in between.
C30_Original == [][C30_Call]_vars

====
